---- MODULE Spec2Model ----
(***************************************************************************)
(* vidup: scene segmentation of a raw 16x16 grayscale frame stream, the    *)
(* files/scenes index kept in SQLite, and the commands that drive them     *)
(* (src/unnamed/part_000).                                                 *)
(*                                                                         *)
(* Representation.  A std::uint32_t is a tuple of four bytes, least        *)
(* significant first (U32), so that the full 32-bit range is available.    *)
(* A column of the database holds what sqlite3_bind_int stored, a signed   *)
(* 32-bit integer.  A frame is a function from 1..kFrameSize to bytes.     *)
(* Input frames are taken from Palette and named by their index in it;     *)
(* the frame buffers of analyzeScenes hold such an index, 0 standing for   *)
(* the zero-initialised buffer.                                            *)
(***************************************************************************)
EXTENDS Integers, Sequences, FiniteSets, TLC

VARIABLES
    files,      \* table files: set of rows [id, path, status]
    scenes,     \* table scenes: rows [hash, duration_ms, file_id] in rowid order
    pc,         \* "idle": no process; "register", "loop", "status": the store call
                \* the running command makes next; "done": it has returned;
                \* "trap": it was terminated by a division by zero
    cmd,        \* the command line of the running (or last) command and its first getFileEntry
    inStream,   \* m_InStream: the unread part of the input
    loc,        \* the locals of analyzeScenes; of a query, once it has returned
    exitCode,   \* exit code of the last command; -1: none (not started, running or killed)
    reported,   \* the count printed by "%d scenes registered.", -1: nothing printed
    emitted,    \* history: the scenes flushed by the current (or last) analyzeScenes run;
                \* what the last query has printed, line by line
    runOf       \* history: for each file marked Analyzed, the input and the frame
                \* rate of the analyzeScenes run that marked it

vars == <<files, scenes, pc, cmd, inStream, loc, exitCode, reported, emitted, runOf>>

----------------------------------------------------------------------------
(* Bounds of the model *)

MaxFrames == 2          \* complete frames of an input, command-level specification
MaxSegFrames == 5       \* complete frames of an input, segmentation specification
MaxDurFrames == 1       \* complete frames still unread, duration specification
MaxFileId == 2          \* largest rowid the files table hands out
MaxQuantFrames == 3     \* complete frames of an input, quantization specification
MaxQueryFiles == 3      \* files of the index, query specification

Names == {"a", "b"}     \* path stems given on the command line

----------------------------------------------------------------------------
(* Program constants *)

kFrameSize == 16 * 16
kSceneChangedThreshold == [num |-> 45, den |-> 10]     \* 4.5
kNone == 0
kAnalyzed == 1
m_FrameRate == 30       \* default of --frame-rate

----------------------------------------------------------------------------
(* 32-bit unsigned arithmetic on byte tuples *)

ZeroU32 == <<0, 0, 0, 0>>

\* n in 0 .. 2^31-1 as a std::uint32_t
U32(n) == <<n % 256, (n \div 256) % 256, (n \div 65536) % 256, n \div 16777216>>

RECURSIVE XorBits(_, _, _)
XorBits(a, b, w) ==
    IF w = 0 THEN 0 ELSE ((a + b) % 2) + 2 * XorBits(a \div 2, b \div 2, w - 1)

\* a XOR b for bytes a and b
Xor8Table == [a \in 0..255 |-> [b \in 0..255 |-> XorBits(a, b, 8)]]

Xor8(a, b) == Xor8Table[a][b]

XorU32(x, y) ==
    <<Xor8(x[1], y[1]), Xor8(x[2], y[2]), Xor8(x[3], y[3]), Xor8(x[4], y[4])>>

Shr1(x) ==
    << (x[1] \div 2) + 128 * (x[2] % 2), (x[2] \div 2) + 128 * (x[3] % 2),
       (x[3] \div 2) + 128 * (x[4] % 2), x[4] \div 2 >>

\* x * k modulo 2^32, for 0 <= k < 2^20
MulU32(x, k) ==
    LET t1 == x[1] * k
        t2 == x[2] * k + (t1 \div 256)
        t3 == x[3] * k + (t2 \div 256)
        t4 == x[4] * k + (t3 \div 256)
    IN  <<t1 % 256, t2 % 256, t3 % 256, t4 % 256>>

\* x / d truncated, for 1 <= d < 2^23
DivU32(x, d) ==
    LET q4 == x[4] \div d
        r4 == x[4] % d
        q3 == (r4 * 256 + x[3]) \div d
        r3 == (r4 * 256 + x[3]) % d
        q2 == (r3 * 256 + x[2]) \div d
        r2 == (r3 * 256 + x[2]) % d
        q1 == (r2 * 256 + x[1]) \div d
    IN  <<q1, q2, q3, q4>>

\* x + y modulo 2^32
AddU32(x, y) ==
    LET t1 == x[1] + y[1]
        t2 == x[2] + y[2] + (t1 \div 256)
        t3 == x[3] + y[3] + (t2 \div 256)
        t4 == x[4] + y[4] + (t3 \div 256)
    IN  <<t1 % 256, t2 % 256, t3 % 256, t4 % 256>>

\* x < y
LessU32(x, y) ==
    \/ x[4] < y[4]
    \/ x[4] = y[4] /\ x[3] < y[3]
    \/ x[4] = y[4] /\ x[3] = y[3] /\ x[2] < y[2]
    \/ x[4] = y[4] /\ x[3] = y[3] /\ x[2] = y[2] /\ x[1] < y[1]

\* the int that a std::uint32_t converts to (sqlite3_bind_int takes an int)
ToInt(x) ==
    IF x[4] >= 128
    THEN ((x[4] - 256) * 16777216) + x[3] * 65536 + x[2] * 256 + x[1]
    ELSE x[4] * 16777216 + x[3] * 65536 + x[2] * 256 + x[1]

\* the std::uint32_t that the int of sqlite3_column_int converts to
FromInt(n) ==
    IF n >= 0 THEN U32(n)
    ELSE LET m == n + 2147483647 + 1    \* n + 2^31, in 0 .. 2^31-1
             u == U32(m)
         IN  <<u[1], u[2], u[3], u[4] + 128>>

----------------------------------------------------------------------------
(* Checksum, frame difference, frame reader *)

\* the CRC32C step of _mm_crc32_u8 for every value of the low byte
CrcPoly == <<120, 59, 246, 130>>       \* 0x82F63B78, the reflected polynomial

RECURSIVE CrcShift(_, _)
CrcShift(c, k) ==
    IF k = 0 THEN c
    ELSE CrcShift(IF c[1] % 2 = 1 THEN XorU32(Shr1(c), CrcPoly) ELSE Shr1(c), k - 1)

CrcByteTable == [b \in 0..255 |-> CrcShift(<<b, 0, 0, 0>>, 8)]

crc32_u8(acc, b) ==
    XorU32(CrcByteTable[Xor8(acc[1], b)], <<acc[2], acc[3], acc[4], 0>>)

\* _mm_crc32_u64 on the 8 bytes buf[at+1 .. at+8], lowest address first
crc32_u64(acc, buf, at) ==
    crc32_u8(crc32_u8(crc32_u8(crc32_u8(crc32_u8(crc32_u8(crc32_u8(crc32_u8(
        acc, buf[at + 1]), buf[at + 2]), buf[at + 3]), buf[at + 4]),
        buf[at + 5]), buf[at + 6]), buf[at + 7]), buf[at + 8])

\* first loop of crc32acc, from byte offset i on.  (The test on next is true
\* of every U32; it makes TLC evaluate next before it goes on.)
RECURSIVE crc32accChunks(_, _, _, _)
crc32accChunks(acc64, size, buf, i) ==
    IF i + 8 <= size
    THEN LET next == crc32_u64(acc64, buf, i)
         IN  IF next[1] >= 0 THEN crc32accChunks(next, size, buf, i + 8) ELSE next
    ELSE <<acc64, i>>

\* second loop of crc32acc, from byte offset i on
RECURSIVE crc32accTail(_, _, _, _)
crc32accTail(acc, size, buf, i) ==
    IF i < size
    THEN LET next == crc32_u8(acc, buf[i + 1])
         IN  IF next[1] >= 0 THEN crc32accTail(next, size, buf, i + 1) ELSE next
    ELSE acc

\* crc32acc folding every 8-byte chunk from acc instead of from acc64
crc32acc_NoCarry(acc, size, buf) == crc32_u64(acc, buf, size - 8)

crc32acc(acc, size, buf) ==
    LET chunks == crc32accChunks(acc, size, buf, 0)
    IN  crc32accTail(chunks[1], size, buf, chunks[2])

\* rse of rmse(): the sum of the squared pixel differences, summed in the
\* order of the loop, one 16-pixel line of the frame after the other
rse(frame1, frame2) ==
    LET sq(k) == (frame1[k] - frame2[k]) * (frame1[k] - frame2[k])
        line(r) ==
            LET part[c \in 0..16] ==
                    IF c = 0 THEN 0 ELSE part[c - 1] + sq(16 * (r - 1) + c)
            IN  part[16]
        sum[r \in 0..(kFrameSize \div 16)] ==
            IF r = 0 THEN 0 ELSE sum[r - 1] + line(r)
    IN  sum[kFrameSize \div 16]

\* rmse() returns sqrt(rse / (kFrameSize * 256)); the model keeps its square
rmse(frame1, frame2) == [num |-> rse(frame1, frame2), den |-> kFrameSize * 256]

\* error > kSceneChangedThreshold, both sides squared
ExceedsThreshold(error) ==
    error.num * (kSceneChangedThreshold.den * kSceneChangedThreshold.den)
        > (kSceneChangedThreshold.num * kSceneChangedThreshold.num) * error.den

\* the frames an input can hold, before quantization; frames 4, 5 and 6 are
\* frames 1, 2 and 3 with other low nibbles
Palette ==
    << [p \in 1..kFrameSize |-> 55],                        \* dark, 0x37
       [p \in 1..kFrameSize |-> 160 + ((7 * p) % 96)],      \* bright, 0xA0..0xFF
       [p \in 1..kFrameSize |-> 75],                        \* dim, 0x4B
       [p \in 1..kFrameSize |-> 48 + (p % 16)],             \* dark, 0x30..0x3F
       [p \in 1..kFrameSize |->                             \* bright, low nibbles inverted
            160 + ((7 * p) % 96) + 15 - 2 * ((160 + ((7 * p) % 96)) % 16)],
       [p \in 1..kFrameSize |-> 64 + ((3 * p) % 16)] >>     \* dim, 0x40..0x4F

FrameIds == 1..Len(Palette)

\* the frames with distinct buffer contents
SegFrameIds == 1..3

\* readFrame without the dithering loop
Dither_KeepsLowBits(raw) == raw

\* readFrame's dithering loop: dest[i] & 0xF0
Dither(raw) == [p \in 1..kFrameSize |-> raw[p] - (raw[p] % 16)]

\* the content of a frame buffer of analyzeScenes
Buffer == [f \in 0..Len(Palette) |->
              IF f = 0 THEN [p \in 1..kFrameSize |-> 0] ELSE Dither(Palette[f])]

\* readFrame taking a short fread for a frame
readFrame_AcceptsPartial(stream) ==
    IF Len(stream.frames) * kFrameSize + stream.extra >= kFrameSize
    THEN [ok |-> TRUE, frame |-> Head(stream.frames),
          rest |-> [stream EXCEPT !.frames = Tail(stream.frames)]]
    ELSE IF stream.extra > 0
         THEN [ok |-> TRUE, frame |-> 1, rest |-> [stream EXCEPT !.extra = 0]]
         ELSE [ok |-> FALSE, frame |-> 0, rest |-> stream]

\* An input is [frames, extra]: the complete frames, then extra < kFrameSize
\* bytes.  readFrame succeeds while a complete frame is left to fread.
readFrame(stream) ==
    IF Len(stream.frames) * kFrameSize + stream.extra >= kFrameSize
    THEN [ok |-> TRUE, frame |-> Head(stream.frames),
          rest |-> [stream EXCEPT !.frames = Tail(stream.frames)]]
    ELSE [ok |-> FALSE, frame |-> 0, rest |-> [stream EXCEPT !.extra = 0]]

EmptyInput == [frames |-> <<>>, extra |-> 0]

\* the inputs with at most n complete frames drawn from ids
Inputs(ids, n, extras) ==
    {[frames |-> fr, extra |-> e] : fr \in UNION {[1..k -> ids] : k \in 0..n}, e \in extras}

\* rmse(frame, lastFrame) for every pair of buffer contents, computed once
ErrorTab ==
    [frame \in 0..Len(Palette) |-> [lastFrame \in 0..Len(Palette) |->
        rmse(Buffer[frame], Buffer[lastFrame])]]

\* crc32acc(acc, kFrameSize, frame) for every frame of the palette and every
\* accumulator that n frames can lead to from the given ones, computed once
RECURSIVE CrcClosure(_, _, _)
CrcClosure(tab, accs, n) ==
    IF n = 0 \/ accs = {} THEN tab
    ELSE LET all == tab @@ [key \in accs \X FrameIds |->
                               crc32acc(key[1], kFrameSize, Buffer[key[2]])]
         IN  CrcClosure(all, {all[key] : key \in accs \X FrameIds}
                                 \ {key[1] : key \in DOMAIN all}, n - 1)

\* (with the checksum of a black frame, whose content is that of the zero
\* buffer, from zero)
CrcTab ==
    CrcClosure([key \in {<<ZeroU32, 0>>} |-> crc32acc(ZeroU32, kFrameSize, Buffer[0])],
               {ZeroU32},
               IF MaxFrames > MaxSegFrames THEN MaxFrames ELSE MaxSegFrames)

----------------------------------------------------------------------------
(* The index: tables files and scenes, foreign keys enabled by openDatabase *)

FileIds(fs) == {row.id : row \in fs}

\* the rowid SQLite gives to a row inserted without one: 1 + the largest in use
NextRowId(fs) ==
    IF fs = {} THEN 1 ELSE 1 + CHOOSE m \in FileIds(fs) : \A k \in FileIds(fs) : k <= m

getFileEntry(fs, name) ==
    IF \E row \in fs : row.path = name
    THEN LET row == CHOOSE row \in fs : row.path = name
         IN  [id |-> row.id, status |-> row.status]
    ELSE [id |-> -1, status |-> kNone]

\* registerFile binding kAnalyzed as the status of the new row
registerFile_Analyzed(fs, name) ==
    IF \E row \in fs : row.path = name
    THEN [ok |-> FALSE, files |-> fs]
    ELSE [ok |-> TRUE,
          files |-> fs \cup {[id |-> NextRowId(fs), path |-> name, status |-> kAnalyzed]}]

\* INSERT INTO files (path, status): fails on the UNIQUE constraint of path
registerFile(fs, name) ==
    IF \E row \in fs : row.path = name
    THEN [ok |-> FALSE, files |-> fs]
    ELSE [ok |-> TRUE,
          files |-> fs \cup {[id |-> NextRowId(fs), path |-> name, status |-> kNone]}]

updateFileStatus(fs, fileId, fileStatus) ==
    {IF row.id = fileId THEN [row EXCEPT !.status = fileStatus] ELSE row : row \in fs}

\* INSERT INTO scenes: fails on the foreign key when no file row has the id
registerScene(fs, sc, scene) ==
    IF scene.fileId \in FileIds(fs)
    THEN [ok |-> TRUE,
          scenes |-> Append(sc, [hash |-> ToInt(scene.sceneId.hash),
                                 duration_ms |-> ToInt(scene.sceneId.durationMs),
                                 file_id |-> scene.fileId])]
    ELSE [ok |-> FALSE, scenes |-> sc]

\* deleteFile on a connection whose foreign keys are not enabled
deleteFile_NoCascade(fs, sc, fileId) ==
    [files |-> {row \in fs : row.id # fileId}, scenes |-> sc]

\* DELETE FROM files WHERE id = ?, with ON DELETE CASCADE on scenes.file_id
deleteFile(fs, sc, fileId) ==
    [files |-> {row \in fs : row.id # fileId},
     scenes |-> SelectSeq(sc, LAMBDA row : row.file_id # fileId)]

getScenesByFile(sc, fileId) ==
    LET rows == SelectSeq(sc, LAMBDA row : row.file_id = fileId)
    IN  [k \in 1..Len(rows) |->
            [sceneId |-> [hash |-> FromInt(rows[k].hash),
                          durationMs |-> FromInt(rows[k].duration_ms)],
             fileId |-> fileId]]

----------------------------------------------------------------------------
(* analyzeScenes *)

\* the locals at entry
LocInit(fileId) ==
    [lastFrame |-> 0, crc |-> ZeroU32, nScenes |-> 0, i |-> 0, iFirstFrame |-> 0,
     fileId |-> fileId]

NoLoc == LocInit(-1)

\* (i - iFirstFrame) * 1000 / frameRate in unsigned 32-bit arithmetic
DurationMsOf(i, iFirstFrame, frameRate) ==
    DivU32(MulU32(U32(i - iFirstFrame), 1000), frameRate)

\* the Scene handed to registerScene when the pending scene is flushed
PendingScene(l, frameRate) ==
    [sceneId |-> [hash |-> l.crc,
                  durationMs |-> DurationMsOf(l.i, l.iFirstFrame, frameRate)],
     fileId |-> l.fileId]

\* history record of a flush: the scene and the frames [first, last) it covers
Flushed(l, frameRate) ==
    [sceneId |-> PendingScene(l, frameRate).sceneId, first |-> l.iFirstFrame, last |-> l.i]

\* error > kSceneChangedThreshold for the frame just read
SceneChanged(l, frame) == ExceedsThreshold(ErrorTab[frame][l.lastFrame])

\* FlushDue without the test of line 637 on i
FlushDue_AtFrameZero(l, frame) == SceneChanged(l, frame)

\* the loop body calls registerScene for this frame
FlushDue(l, frame) == SceneChanged(l, frame) /\ l.i > 0

\* LoopTail with the new scene starting one frame late
LoopTail_SkipFrame(l, frame) ==
    [(IF SceneChanged(l, frame)
      THEN [l EXCEPT !.crc = ZeroU32, !.nScenes = @ + 1, !.iFirstFrame = l.i + 1]
      ELSE l)
        EXCEPT !.crc = CrcTab[<<@, frame>>], !.lastFrame = frame, !.i = @ + 1]

\* LoopTail without the swap of the frame buffers
LoopTail_StaleLastFrame(l, frame) ==
    [(IF SceneChanged(l, frame)
      THEN [l EXCEPT !.crc = ZeroU32, !.nScenes = @ + 1, !.iFirstFrame = l.i]
      ELSE l)
        EXCEPT !.crc = CrcTab[<<@, frame>>], !.i = @ + 1]

\* the loop body from the reset of crc to the end of the iteration
LoopTail(l, frame) ==
    [(IF SceneChanged(l, frame)
      THEN [l EXCEPT !.crc = ZeroU32, !.nScenes = @ + 1, !.iFirstFrame = l.i]
      ELSE l)
        EXCEPT !.crc = CrcTab[<<@, frame>>], !.lastFrame = frame, !.i = @ + 1]

\* the iterations up to the next one that has a scene to flush, or to the
\* end of the input
RECURSIVE ScanToFlush(_, _)
ScanToFlush(l, stream) ==
    IF readFrame(stream).ok /\ ~FlushDue(l, readFrame(stream).frame)
    THEN ScanToFlush(LoopTail(l, readFrame(stream).frame), readFrame(stream).rest)
    ELSE [loc |-> l, stream |-> stream]

\* analyzeScenes with db = nullptr: no store call is made
RECURSIVE DryAnalyzeScenes(_, _, _, _)

\* the flush that the scan has stopped at, at.loc and at.stream being the
\* locals and the unread input there, and the rest of the run
DryFlush(at, r, frameRate, out) ==
    IF r.ok
    THEN DryAnalyzeScenes(LoopTail(at.loc, r.frame), r.rest, frameRate, out)
    ELSE [nScenes |-> at.loc.nScenes + 1, emitted |-> out]

DryFlushAt(at, frameRate, flushed) ==
    DryFlush(at, readFrame(at.stream), frameRate,
             Append(flushed, Flushed(at.loc, frameRate)))

DryAnalyzeScenes(l, stream, frameRate, flushed) ==
    DryFlushAt(ScanToFlush(l, stream), frameRate, flushed)

----------------------------------------------------------------------------
(* Commands.  Vidup::exec runs one command per process.  An action is the  *)
(* code from one store-changing call to the next, that call included: the  *)
(* call may fail, and the process may be killed between two actions.  The  *)
(* input is taken to be readable (m_InStream is open).                     *)

NoEntry == [id |-> -1, status |-> kNone]

NoCmd ==
    [mode |-> "none", name |-> "", dryRun |-> FALSE, forced |-> FALSE,
     frameRate |-> m_FrameRate, input |-> EmptyInput, found |-> NoEntry]

AnalyzeCmd(name, input, dryRun, forced, frameRate) ==
    [mode |-> "analyze", name |-> name, dryRun |-> dryRun, forced |-> forced,
     frameRate |-> frameRate, input |-> input, found |-> getFileEntry(files, name)]

\* the process ends with this exit code
Return(code) ==
    /\ pc' = "done"
    /\ exitCode' = code
    /\ loc' = NoLoc
    /\ inStream' = EmptyInput

\* the history, once the file rows are fs
Forget(fs) == [id \in DOMAIN runOf \cap FileIds(fs) |-> runOf[id]]

\* exec: registerFile, then getFileEntry, then entry into analyzeScenes
RegisterAndEnter(c) ==
    LET reg == registerFile(files, c.name)
    IN  \/ /\ reg.ok                         \* both calls succeed
           /\ files' = reg.files
           /\ pc' = "loop"
           /\ loc' = LocInit(getFileEntry(reg.files, c.name).id)
           /\ inStream' = c.input
           /\ exitCode' = -1
        \/ /\ reg.ok                         \* getFileEntry fails
           /\ files' = reg.files
           /\ Return(1)
        \/ /\ UNCHANGED files                \* registerFile fails
           /\ Return(1)

\* analyze, the entry is Analyzed and --force is not given: "already exists"
AnalyzeExisting(name, input, dryRun, frameRate) ==
    LET c == AnalyzeCmd(name, input, dryRun, FALSE, frameRate)
    IN  /\ pc = "idle"
        /\ c.found.id >= 0
        /\ c.found.status = kAnalyzed
        /\ cmd' = c
        /\ emitted' = <<>>
        /\ reported' = -1
        /\ Return(0)
        /\ UNCHANGED <<files, scenes, runOf>>

\* the report and the return of analyzeScenes with db = nullptr
DryReturn(run) ==
    /\ emitted' = run.emitted
    /\ reported' = run.nScenes
    /\ Return(0)

\* AnalyzeDry with the deleteFile of line 1029 not guarded by m_IsDryRun
AnalyzeDry_Deletes(name, input, forced, frameRate) ==
    LET c == AnalyzeCmd(name, input, TRUE, forced, frameRate)
        del == IF c.found.id >= 0 THEN deleteFile(files, scenes, c.found.id)
               ELSE [files |-> files, scenes |-> scenes]
    IN  /\ pc = "idle"
        /\ ~(c.found.id >= 0 /\ c.found.status = kAnalyzed /\ ~forced)
        /\ cmd' = c
        /\ DryReturn(DryAnalyzeScenes(LocInit(c.found.id), input, frameRate, <<>>))
        /\ files' = del.files
        /\ scenes' = del.scenes
        /\ runOf' = Forget(del.files)

\* analyze --dry-run that gets past the "already exists" test
AnalyzeDry(name, input, forced, frameRate) ==
    LET c == AnalyzeCmd(name, input, TRUE, forced, frameRate)
    IN  /\ pc = "idle"
        /\ ~(c.found.id >= 0 /\ c.found.status = kAnalyzed /\ ~forced)
        /\ cmd' = c
        /\ DryReturn(DryAnalyzeScenes(LocInit(c.found.id), input, frameRate, <<>>))
        /\ UNCHANGED <<files, scenes, runOf>>

\* AnalyzeReplace without the test of lines 1021-1022 on the status
AnalyzeReplace_IgnoreStatus(name, input, forced, frameRate) ==
    LET c == AnalyzeCmd(name, input, FALSE, forced, frameRate)
        del == deleteFile(files, scenes, c.found.id)
    IN  /\ pc = "idle"
        /\ c.found.id >= 0
        /\ NextRowId(del.files) <= MaxFileId
        /\ cmd' = c
        /\ emitted' = <<>>
        /\ reported' = -1
        /\ files' = del.files
        /\ scenes' = del.scenes
        /\ runOf' = Forget(del.files)
        /\ pc' = "register"
        /\ exitCode' = -1
        /\ UNCHANGED <<loc, inStream>>

\* analyze of a name that has an entry: the entry is deleted first
AnalyzeReplace(name, input, forced, frameRate) ==
    LET c == AnalyzeCmd(name, input, FALSE, forced, frameRate)
        del == deleteFile(files, scenes, c.found.id)
    IN  /\ pc = "idle"
        /\ c.found.id >= 0
        /\ ~(c.found.status = kAnalyzed /\ ~forced)
        /\ NextRowId(del.files) <= MaxFileId
        /\ cmd' = c
        /\ emitted' = <<>>
        /\ reported' = -1
        /\ \/ /\ files' = del.files           \* deleteFile succeeds
              /\ scenes' = del.scenes
              /\ runOf' = Forget(del.files)
              /\ pc' = "register"
              /\ exitCode' = -1
              /\ UNCHANGED <<loc, inStream>>
           \/ /\ Return(1)                    \* deleteFile fails
              /\ UNCHANGED <<files, scenes, runOf>>

\* analyze of a name that has no entry
AnalyzeNew(name, input, forced, frameRate) ==
    LET c == AnalyzeCmd(name, input, FALSE, forced, frameRate)
    IN  /\ pc = "idle"
        /\ c.found.id < 0
        /\ NextRowId(files) <= MaxFileId
        /\ cmd' = c
        /\ emitted' = <<>>
        /\ reported' = -1
        /\ RegisterAndEnter(c)
        /\ UNCHANGED <<scenes, runOf>>

\* analyze, after the old entry is deleted
ExecRegister ==
    /\ pc = "register"
    /\ RegisterAndEnter(cmd)
    /\ UNCHANGED <<scenes, cmd, emitted, reported, runOf>>

\* the registerScene of the pending scene with the SceneId sceneId, l being
\* the locals there and r the readFrame that led to it: in the loop (r.ok),
\* with the rest of the iteration, or after it
AnalyzeFlushScene(l, r, sceneId) ==
    \/ /\ registerScene(files, scenes, [sceneId |-> sceneId, fileId |-> l.fileId]).ok
       /\ scenes' = registerScene(files, scenes,
                                  [sceneId |-> sceneId, fileId |-> l.fileId]).scenes
       /\ emitted' = Append(emitted, [sceneId |-> sceneId,
                                      first |-> l.iFirstFrame, last |-> l.i])
       /\ inStream' = r.rest
       /\ IF r.ok
          THEN /\ loc' = LoopTail(l, r.frame)
               /\ pc' = "loop"
          ELSE /\ loc' = [l EXCEPT !.nScenes = @ + 1]
               /\ pc' = "status"
       /\ UNCHANGED exitCode
    \/ /\ Return(1)                            \* registerScene fails
       /\ UNCHANGED <<scenes, emitted>>

\* the flush of the pending scene, its duration computed with cmd.frameRate
AnalyzeFlush(l, r) == AnalyzeFlushScene(l, r, PendingScene(l, cmd.frameRate).sceneId)

\* what an undefined division is taken to leave in durationMs when it
\* returns: the smallest and the largest DurationMs
UndefinedDurations == {ZeroU32, <<255, 255, 255, 255>>}

\* the computation of durationMs with a frameRate of 0, an integer division
\* by zero, which is undefined: the division traps and the process is
\* terminated by the signal, or it returns with some value and the run goes on
DivideByZero(l, r) ==
    \/ /\ pc' = "trap"
       /\ exitCode' = -1
       /\ loc' = l
       /\ inStream' = r.rest
       /\ UNCHANGED <<scenes, emitted>>
    \/ \E durationMs \in UndefinedDurations :
          AnalyzeFlushScene(l, r, [hash |-> l.crc, durationMs |-> durationMs])

\* AnalyzeNext without the flush of lines 660-666 after the loop
AnalyzeNext_NoTrailingFlush ==
    /\ pc = "loop"
    /\ IF readFrame(ScanToFlush(loc, inStream).stream).ok
       THEN AnalyzeFlush(ScanToFlush(loc, inStream).loc,
                         readFrame(ScanToFlush(loc, inStream).stream))
       ELSE /\ inStream' = readFrame(ScanToFlush(loc, inStream).stream).rest
            /\ loc' = ScanToFlush(loc, inStream).loc
            /\ pc' = "status"
            /\ UNCHANGED <<scenes, emitted, exitCode>>
    /\ UNCHANGED <<files, cmd, reported, runOf>>

\* analyzeScenes up to its next registerScene, and the rest of that iteration
AnalyzeNext ==
    /\ pc = "loop"
    /\ IF cmd.frameRate = 0
       THEN DivideByZero(ScanToFlush(loc, inStream).loc,
                         readFrame(ScanToFlush(loc, inStream).stream))
       ELSE AnalyzeFlush(ScanToFlush(loc, inStream).loc,
                         readFrame(ScanToFlush(loc, inStream).stream))
    /\ UNCHANGED <<files, cmd, reported, runOf>>

\* the end of analyzeScenes: updateFileStatus and the report
AnalyzeStatus ==
    /\ pc = "status"
    /\ \/ /\ files' = updateFileStatus(files, loc.fileId, kAnalyzed)
          /\ runOf' = (loc.fileId :> [input |-> cmd.input, frameRate |-> cmd.frameRate])
                          @@ runOf
          /\ reported' = loc.nScenes
          /\ Return(0)
       \/ /\ Return(1)                         \* updateFileStatus fails
          /\ UNCHANGED <<files, reported, runOf>>
    /\ UNCHANGED <<scenes, cmd, emitted>>

\* --delete name
Delete(name) ==
    LET fileEntry == getFileEntry(files, name)
        del == deleteFile(files, scenes, fileEntry.id)
    IN  /\ pc = "idle"
        /\ cmd' = [NoCmd EXCEPT !.mode = "delete", !.name = name, !.found = fileEntry]
        /\ emitted' = <<>>
        /\ reported' = -1
        /\ \/ /\ fileEntry.id < 0              \* "not found"
              /\ Return(1)
              /\ UNCHANGED <<files, scenes, runOf>>
           \/ /\ fileEntry.id >= 0
              /\ files' = del.files
              /\ scenes' = del.scenes
              /\ runOf' = Forget(del.files)
              /\ Return(0)
           \/ /\ fileEntry.id >= 0              \* deleteFile fails
              /\ Return(1)
              /\ UNCHANGED <<files, scenes, runOf>>

\* the process is killed between two store calls
Interrupt ==
    /\ pc \in {"register", "loop", "status"}
    /\ Return(-1)
    /\ UNCHANGED <<files, scenes, cmd, reported, emitted, runOf>>

\* the process is gone; the index is what it leaves behind
Exit ==
    /\ pc = "done"
    /\ pc' = "idle"
    /\ cmd' = NoCmd
    /\ exitCode' = -1
    /\ reported' = -1
    /\ emitted' = <<>>
    /\ UNCHANGED <<files, scenes, inStream, loc, runOf>>

----------------------------------------------------------------------------
(* Queries: getFileName, getScenesByHash, getTopHashes, searchFile, top.   *)
(* A query that fails makes its command return 1.                          *)

\* SELECT path FROM files WHERE id = ?: the empty name when no row has the id
getFileName(fs, fileId) ==
    IF \E row \in fs : row.id = fileId
    THEN (CHOOSE row \in fs : row.id = fileId).path
    ELSE ""

\* the elements of ids not in seen, each once, in the order of their first occurrence
RECURSIVE Distinct(_, _)
Distinct(ids, seen) ==
    IF ids = <<>> THEN <<>>
    ELSE IF Head(ids) \in seen THEN Distinct(Tail(ids), seen)
         ELSE <<Head(ids)>> \o Distinct(Tail(ids), seen \cup {Head(ids)})

\* the rows WHERE (hash = ? AND duration_ms = ?), both bound as int
RowsByHash(sc, sceneId) ==
    SelectSeq(sc, LAMBDA row : /\ row.hash = ToInt(sceneId.hash)
                               /\ row.duration_ms = ToInt(sceneId.durationMs))

\* the Scenes appended for the file ids fileIds
ScenesOf(sceneId, fileIds) ==
    [k \in 1..Len(fileIds) |-> [sceneId |-> sceneId, fileId |-> fileIds[k]]]

\* getScenesByHash with SELECT file_id in place of SELECT DISTINCT file_id
getScenesByHash_AllRows(sc, sceneId, found) ==
    found \o ScenesOf(sceneId, [k \in 1..Len(RowsByHash(sc, sceneId)) |->
                                   RowsByHash(sc, sceneId)[k].file_id])

\* found, then one Scene for every file that owns a row with the SceneId.
\* (SQL leaves the order of the rows of this SELECT open; the callers sort
\* or classify what they get, so the model takes the order of the rowids.)
getScenesByHash(sc, sceneId, found) ==
    found \o ScenesOf(sceneId,
                      Distinct([k \in 1..Len(RowsByHash(sc, sceneId)) |->
                                   RowsByHash(sc, sceneId)[k].file_id], {}))

\* The sequences that hold every element of S once with rank never
\* increasing: what sorting S in descending order of rank can return, the
\* order of elements of equal rank being unspecified (ORDER BY, std::sort).
RECURSIVE SortedDesc(_, _)
SortedDesc(S, rank) ==
    IF S = {} THEN {<<>>}
    ELSE UNION {{<<m>> \o t : t \in SortedDesc(S \ {m}, rank)} :
                   m \in {x \in S : \A y \in S : rank[y] <= rank[x]}}

\* the groups of GROUP BY hash, duration_ms
Groups(sc) == {[hash |-> sc[k].hash, duration_ms |-> sc[k].duration_ms] : k \in DOMAIN sc}

\* COUNT(hash) of a group
CountOf(sc, g) ==
    Cardinality({k \in DOMAIN sc : sc[k].hash = g.hash /\ sc[k].duration_ms = g.duration_ms})

\* LIMIT ?: a negative limit is no limit
Limit(rows, limit) ==
    IF limit < 0 \/ limit >= Len(rows) THEN rows ELSE SubSeq(rows, 1, limit)

\* the HashCount built from a row of the result, the columns read as int
\* and converted to Hash and DurationMs
HashCountOf(sc, g) ==
    [sceneId |-> [hash |-> FromInt(g.hash), durationMs |-> FromInt(g.duration_ms)],
     count |-> CountOf(sc, g)]

HashCounts(sc, rows) == [k \in 1..Len(rows) |-> HashCountOf(sc, rows[k])]

\* getTopHashes without HAVING COUNT(hash) > 1
getTopHashes_NoHaving(sc, limit) ==
    {HashCounts(sc, Limit(rows, limit)) :
        rows \in SortedDesc(Groups(sc), [g \in Groups(sc) |-> g.duration_ms])}

\* getTopHashes with HAVING COUNT(DISTINCT file_id) > 1
getTopHashes_DistinctFiles(sc, limit) ==
    {HashCounts(sc, Limit(rows, limit)) :
        rows \in SortedDesc({g \in Groups(sc) :
                                Cardinality({sc[k].file_id :
                                    k \in {j \in DOMAIN sc :
                                              /\ sc[j].hash = g.hash
                                              /\ sc[j].duration_ms = g.duration_ms}}) > 1},
                            [g \in Groups(sc) |-> g.duration_ms])}

\* the results that getTopHashes can deliver: ORDER BY duration_ms DESC
\* compares the column, a signed integer
getTopHashes(sc, limit) ==
    {HashCounts(sc, Limit(rows, limit)) :
        rows \in SortedDesc({g \in Groups(sc) : CountOf(sc, g) > 1},
                            [g \in Groups(sc) |-> g.duration_ms])}

\* the smallest element: begin() of a std::set
Begin(fileIds) == CHOOSE f \in fileIds : \A g \in fileIds : f <= g

\* std::sort of the Scenes of the files fileIds by fileId; nothing reads the
\* order of the Scenes of one file
RECURSIVE SortByFileId(_, _)
SortByFileId(found, fileIds) ==
    IF fileIds = {} THEN <<>>
    ELSE SelectSeq(found, LAMBDA s : s.fileId = Begin(fileIds))
            \o SortByFileId(found, fileIds \ {Begin(fileIds)})

\* std::lower_bound and std::upper_bound for fileId on scenes sorted by
\* fileId, as offsets from begin()
lower_bound(found, fileId) == Cardinality({k \in DOMAIN found : found[k].fileId < fileId})
upper_bound(found, fileId) == Cardinality({k \in DOMAIN found : found[k].fileId <= fileId})

\* vector::erase of the range [lower, upper)
erase(found, lower, upper) == SubSeq(found, 1, lower) \o SubSeq(found, upper + 1, Len(found))

\* countScenes from offset lower on: one pair (fileId, count) per run of Scenes
RECURSIVE countScenes(_, _, _)
countScenes(found, lower, fileAndCounts) ==
    IF lower >= Len(found) THEN fileAndCounts
    ELSE countScenes(found, upper_bound(found, found[lower + 1].fileId),
                     Append(fileAndCounts,
                            [first |-> found[lower + 1].fileId,
                             second |-> upper_bound(found, found[lower + 1].fileId)
                                            - lower_bound(found, found[lower + 1].fileId)]))

\* the loop of searchFile over scenesOfFile, from its k-th scene on
RECURSIVE FoundForFile(_, _, _, _)
FoundForFile(sc, scenesOfFile, k, found) ==
    IF k > Len(scenesOfFile) THEN found
    ELSE FoundForFile(sc, scenesOfFile, k + 1,
                      getScenesByHash(sc, scenesOfFile[k].sceneId, found))

\* searchFile without the erase of the Scenes of fileId
Candidates_KeepsSelf(sorted, fileId) == countScenes(sorted, 0, <<>>)

\* searchFile from the erase of the Scenes of fileId to countScenes
Candidates(sorted, fileId) ==
    countScenes(erase(sorted, lower_bound(sorted, fileId), upper_bound(sorted, fileId)),
                0, <<>>)

\* foundScenes of searchFile after the std::sort by fileId
SortedFound(sc, fileId) ==
    SortByFileId(FoundForFile(sc, getScenesByFile(sc, fileId), 1, <<>>),
                 {row.file_id : row \in {sc[k] : k \in DOMAIN sc}})

\* the orders that the std::sort by count can leave fileAndCounts in
SortByCount(fileAndCounts) ==
    SortedDesc({fileAndCounts[k] : k \in DOMAIN fileAndCounts},
               [p \in {fileAndCounts[k] : k \in DOMAIN fileAndCounts} |-> p.second])

\* the output loop of searchFile from offset i on: the line is printed, then
\* i is incremented and tested against limit
RECURSIVE PrintLoop(_, _, _, _, _)
PrintLoop(fs, fileAndCounts, i, limit, out) ==
    IF i >= Len(fileAndCounts) THEN out
    ELSE IF i + 1 >= limit
         THEN Append(out, [count |-> fileAndCounts[i + 1].second,
                           name |-> getFileName(fs, fileAndCounts[i + 1].first)])
         ELSE PrintLoop(fs, fileAndCounts, i + 1, limit,
                        Append(out, [count |-> fileAndCounts[i + 1].second,
                                     name |-> getFileName(fs, fileAndCounts[i + 1].first)]))

\* the loop of top over hashCounts, from its k-th entry on
RECURSIVE FoundForHashes(_, _, _, _)
FoundForHashes(sc, hashCounts, k, found) ==
    IF k > Len(hashCounts) THEN found
    ELSE FoundForHashes(sc, hashCounts, k + 1,
                        getScenesByHash(sc, hashCounts[k].sceneId, found))

\* relation[fileId] += durationMs; a new entry of the map starts at zero
AddDuration(relation, fileId, durationMs) ==
    IF fileId \in DOMAIN relation
    THEN [relation EXCEPT ![fileId] = AddU32(@, durationMs)]
    ELSE relation @@ (fileId :> AddU32(ZeroU32, durationMs))

\* AddShared without the test on fileIds
RECURSIVE AddShared_NoSkip(_, _, _, _, _)
AddShared_NoSkip(relation, hashScenes, k, fileIds, durationMs) ==
    IF k > Len(hashScenes) THEN relation
    ELSE AddShared_NoSkip(AddDuration(relation, hashScenes[k].fileId, durationMs),
                          hashScenes, k + 1, fileIds, durationMs)

\* the inner loop of top over hashScenes[fileScene->sceneId], from its k-th
\* entry on; fileIds is the set of the files not yet extracted
RECURSIVE AddShared(_, _, _, _, _)
AddShared(relation, hashScenes, k, fileIds, durationMs) ==
    IF k > Len(hashScenes) THEN relation
    ELSE AddShared(IF hashScenes[k].fileId \in fileIds
                   THEN AddDuration(relation, hashScenes[k].fileId, durationMs)
                   ELSE relation,
                   hashScenes, k + 1, fileIds, durationMs)

\* the loop of top over fileScenes[fileId], from its k-th entry on
RECURSIVE RelationOf(_, _, _, _, _)
RelationOf(relation, found, fileScenes, k, fileIds) ==
    IF k > Len(fileScenes) THEN relation
    ELSE RelationOf(AddShared(relation,
                              SelectSeq(found, LAMBDA s : s.sceneId = fileScenes[k].sceneId),
                              1, fileIds, fileScenes[k].sceneId.durationMs),
                    found, fileScenes, k + 1, fileIds)

NoRelation == [fileId \in {} |-> ZeroU32]

\* the while loop of top: the first file is extracted from fileIds, and the
\* durations it shares with the files still in fileIds are summed
RECURSIVE RelationMap(_, _, _)
RelationMap(found, fileIds, relationMap) ==
    IF fileIds = {} THEN relationMap
    ELSE RelationMap(found, fileIds \ {Begin(fileIds)},
                     relationMap @@
                        (Begin(fileIds) :>
                            RelationOf(NoRelation, found,
                                       SelectSeq(found, LAMBDA s : s.fileId = Begin(fileIds)),
                                       1, fileIds \ {Begin(fileIds)})))

NoRelationMap == [fileId \in {} |-> NoRelation]

\* the tuples of the vector relations
Relations(relationMap) ==
    UNION {{<<f, g, relationMap[f][g]>> : g \in DOMAIN relationMap[f]} :
              f \in DOMAIN relationMap}

\* top without the std::sort of relations: any order
SortByDuration_Unsorted(relations) == SortedDesc(relations, [x \in relations |-> 0])

\* the orders that the std::sort by duration can leave relations in
SortByDuration(relations) ==
    SortedDesc(relations,
               [x \in relations |-> Cardinality({y \in relations : LessU32(y[3], x[3])})])

\* the arguments of the fprintf calls of top, one call per relation: the
\* DurationMs that is printed in seconds, and the names of the two files
TopLines(fs, relations) ==
    [k \in 1..Len(relations) |->
        [first |-> getFileName(fs, relations[k][1]),
         second |-> getFileName(fs, relations[k][2]),
         durationMs |-> relations[k][3]]]

\* the command line of a query and the file entry that exec has found
QueryCmd(mode, fileId, limit) == [mode |-> mode, fileId |-> fileId, limit |-> limit]

\* a query command returns: its exit code, its locals, what it has printed
QueryReturn(code, locals, out) ==
    /\ pc' = "done"
    /\ exitCode' = code
    /\ loc' = locals
    /\ emitted' = out
    /\ reported' = -1
    /\ UNCHANGED <<files, scenes, inStream, runOf>>

\* the locals of a query that has returned; failed names the query whose
\* failure made it return, "" when none has failed
QueryLocals(locals, failed) == locals @@ [failed |-> failed]

\* SearchOutput returning 0 although a getFileName has failed
SearchOutput_IgnoresFailure(fileAndCounts, out) ==
    \/ QueryReturn(0, QueryLocals([fileAndCounts |-> fileAndCounts,
                                   message |-> IF fileAndCounts = <<>>
                                               THEN "no duplicated videos." ELSE ""], ""),
                   out)
    \/ \E k \in 1..Len(out) :
          QueryReturn(0, QueryLocals([fileAndCounts |-> fileAndCounts, message |-> ""],
                                     "getFileName"),
                      SubSeq(out, 1, k - 1))

\* searchFile from the test on fileAndCounts.empty() on; out is what the
\* output loop prints when no getFileName fails
SearchOutput(fileAndCounts, out) ==
    \/ QueryReturn(0, QueryLocals([fileAndCounts |-> fileAndCounts,
                                   message |-> IF fileAndCounts = <<>>
                                               THEN "no duplicated videos." ELSE ""], ""),
                   out)
    \/ \E k \in 1..Len(out) :             \* the k-th getFileName fails
          QueryReturn(1, QueryLocals([fileAndCounts |-> fileAndCounts, message |-> ""],
                                     "getFileName"),
                      SubSeq(out, 1, k - 1))

\* searchFile(db, fileId, limit) for the id of an entry that exec has found
searchFile(fileId, limit) ==
    /\ pc = "idle"
    /\ fileId \in FileIds(files)
    /\ cmd' = QueryCmd("search", fileId, limit)
    /\ \/ \E fileAndCounts \in
               SortByCount(Candidates(SortedFound(scenes, fileId), fileId)) :
             SearchOutput(fileAndCounts, PrintLoop(files, fileAndCounts, 0, limit, <<>>))
       \/ QueryReturn(1, QueryLocals([fileAndCounts |-> <<>>, message |-> ""],
                                     "getScenesByFile"), <<>>)
       \/ /\ getScenesByFile(scenes, fileId) # <<>>
          /\ QueryReturn(1, QueryLocals([fileAndCounts |-> <<>>, message |-> ""],
                                        "getScenesByHash"), <<>>)

\* top from the classification of foundScenes on
TopOutput(hashCounts, found) ==
    \E relations \in
          SortByDuration(Relations(RelationMap(found,
                                               {found[k].fileId : k \in DOMAIN found},
                                               NoRelationMap))) :
        QueryReturn(0, QueryLocals([hashCounts |-> hashCounts], ""),
                    TopLines(files, relations))

\* top returns 1 from its loop over hashCounts or from its loop over fileIds
TopFailure(hashCounts, found) ==
    \/ /\ hashCounts # <<>>
       /\ QueryReturn(1, QueryLocals([hashCounts |-> hashCounts], "getScenesByHash"), <<>>)
    \/ /\ found # <<>>
       /\ QueryReturn(1, QueryLocals([hashCounts |-> hashCounts], "getFileName"), <<>>)

\* --top limit
top(limit) ==
    /\ pc = "idle"
    /\ cmd' = QueryCmd("top", -1, limit)
    /\ \/ \E hashCounts \in getTopHashes(scenes, limit) :
             \/ TopOutput(hashCounts, FoundForHashes(scenes, hashCounts, 1, <<>>))
             \/ TopFailure(hashCounts, FoundForHashes(scenes, hashCounts, 1, <<>>))
       \/ QueryReturn(1, QueryLocals([hashCounts |-> <<>>], "getTopHashes"), <<>>)

\* showFileScenes(db, fileId): the lines "%08X %8d" it prints, one per scene
showFileScenes(fileId) ==
    /\ pc = "idle"
    /\ fileId \in FileIds(files)
    /\ cmd' = QueryCmd("file-scenes", fileId, 0)
    /\ \/ QueryReturn(0, QueryLocals([message |-> ""], ""),
                      [k \in 1..Len(getScenesByFile(scenes, fileId)) |->
                          getScenesByFile(scenes, fileId)[k].sceneId])
       \/ QueryReturn(1, QueryLocals([message |-> ""], "getScenesByFile"), <<>>)

\* exec for --search and --file-scenes, from its getFileEntry on, when no
\* entry has the name: "not found."; or when getFileEntry fails
ExecNotFound(mode, name) ==
    /\ pc = "idle"
    /\ cmd' = QueryCmd(mode, -1, 0)
    /\ \/ /\ getFileEntry(files, name).id < 0
          /\ QueryReturn(1, QueryLocals([message |-> "not found."], ""), <<>>)
       \/ QueryReturn(1, QueryLocals([message |-> ""], "getFileEntry"), <<>>)

\* --search name
ExecSearch(name) ==
    \/ searchFile(getFileEntry(files, name).id, 10)
    \/ ExecNotFound("search", name)

\* --file-scenes name
ExecFileScenes(name) ==
    \/ showFileScenes(getFileEntry(files, name).id)
    \/ ExecNotFound("file-scenes", name)

----------------------------------------------------------------------------
(* Option --frame-rate.  An argument is the sequence of its characters.    *)

Digits == <<"0", "1", "2", "3", "4", "5", "6", "7", "8", "9">>

IsDigit(c) == \E d \in DOMAIN Digits : Digits[d] = c

DigitOf(c) == (CHOOSE d \in DOMAIN Digits : Digits[d] = c) - 1

\* strtol from offset p on, after the sign: the digits are accumulated into
\* value; end is the offset of the first character that is not converted,
\* which is begin (offset 0) when there is no digit
RECURSIVE strtolDigits(_, _, _, _)
strtolDigits(arg, p, value, any) ==
    IF p < Len(arg) /\ IsDigit(arg[p + 1])
    THEN strtolDigits(arg, p + 1, 10 * value + DigitOf(arg[p + 1]), TRUE)
    ELSE [value |-> value, end |-> IF any THEN p ELSE 0]

\* strtol from offset p on, after the white space: an optional sign
strtolSign(arg, p) ==
    IF p < Len(arg) /\ arg[p + 1] = "-"
    THEN [strtolDigits(arg, p + 1, 0, FALSE) EXCEPT !.value = -@]
    ELSE IF p < Len(arg) /\ arg[p + 1] = "+"
         THEN strtolDigits(arg, p + 1, 0, FALSE)
         ELSE strtolDigits(arg, p, 0, FALSE)

\* std::strtol(begin, &end, 10): leading white space is skipped
RECURSIVE strtol(_, _)
strtol(arg, p) ==
    IF p < Len(arg) /\ arg[p + 1] = " " THEN strtol(arg, p + 1) ELSE strtolSign(arg, p)

\* parseArgvInt for an argument that is there: out, and the value returned,
\* which is true when nothing was converted or when characters are left over
parseArgvInt(arg) ==
    [out |-> strtol(arg, 0).value,
     failed |-> strtol(arg, 0).end = 0 \/ strtol(arg, 0).end # Len(arg)]

\* analyze of a new name with --frame-rate arg: parseOptions returns 1 after
\* usage() when parseArgvInt fails, and m_FrameRate is what it has stored
AnalyzeFrameRate(name, input, arg) ==
    IF parseArgvInt(arg).failed
    THEN /\ pc = "idle"
         /\ cmd' = [NoCmd EXCEPT !.mode = "usage", !.name = name, !.input = input,
                                 !.frameRate = parseArgvInt(arg).out]
         /\ emitted' = <<>>
         /\ reported' = -1
         /\ Return(1)
         /\ UNCHANGED <<files, scenes, runOf>>
    ELSE AnalyzeNew(name, input, FALSE, parseArgvInt(arg).out)

----------------------------------------------------------------------------
(* Specifications *)

Init ==
    /\ files = {}
    /\ scenes = <<>>
    /\ pc = "idle"
    /\ cmd = NoCmd
    /\ inStream = EmptyInput
    /\ loc = NoLoc
    /\ exitCode = -1
    /\ reported = -1
    /\ emitted = <<>>
    /\ runOf = [id \in {} |-> 0]

\* the inputs and frame rates of the command-level specification
CmdInputs == Inputs({1, 2}, MaxFrames, {0})
CmdFrameRates == {m_FrameRate}

Next ==
    \/ \E name \in Names, input \in CmdInputs, dryRun \in BOOLEAN, frameRate \in CmdFrameRates :
            AnalyzeExisting(name, input, dryRun, frameRate)
    \/ \E name \in Names, input \in CmdInputs, forced \in BOOLEAN, frameRate \in CmdFrameRates :
            AnalyzeDry(name, input, forced, frameRate)
    \/ \E name \in Names, input \in CmdInputs, forced \in BOOLEAN, frameRate \in CmdFrameRates :
            AnalyzeReplace(name, input, forced, frameRate)
    \/ \E name \in Names, input \in CmdInputs, forced \in BOOLEAN, frameRate \in CmdFrameRates :
            AnalyzeNew(name, input, forced, frameRate)
    \/ ExecRegister
    \/ AnalyzeNext
    \/ AnalyzeStatus
    \/ \E name \in Names : Delete(name)
    \/ Interrupt
    \/ Exit

Spec == Init /\ [][Next]_vars

\* One analyze command on an empty index, dry or not, over longer inputs with
\* three kinds of frame, a partial last frame, and several frame rates.
SegInputs == Inputs(SegFrameIds, MaxSegFrames, {0, 100})
SegFrameRates == {1, 7, 30}

NextSeg ==
    \/ \E input \in SegInputs, frameRate \in SegFrameRates :
            AnalyzeNew("a", input, FALSE, frameRate)
    \/ \E input \in SegInputs, frameRate \in SegFrameRates :
            AnalyzeDry("a", input, FALSE, frameRate)
    \/ AnalyzeNext
    \/ AnalyzeStatus
    \/ Interrupt

SpecSeg == Init /\ [][NextSeg]_vars

\* A non-dry-run analyze on an empty index, taken where analyzeScenes has read
\* count black frames (every pixel below 16): they dither to the content of
\* the zero buffer, index 0, so no boundary was detected, no scene was flushed,
\* and crc is still the checksum of zero bytes from zero, which is zero.  The
\* frames already read are not kept: cmd.input is the part still unread.
DurCounts == {1, 2, 1000, 4294967, 4294968, 5000000, 100000000}
DurFrameRates == {1, 7, 30, 1000}
DurInputs == Inputs(SegFrameIds, MaxDurFrames, {0, 100})

BlackCrc == crc32acc(ZeroU32, kFrameSize, Buffer[0])

InitDur ==
    /\ crc32acc(BlackCrc, kFrameSize, Buffer[0]) = BlackCrc
    /\ ~ExceedsThreshold(ErrorTab[0][0])
    /\ files = registerFile({}, "a").files
    /\ scenes = <<>>
    /\ pc = "loop"
    /\ \E input \in DurInputs, frameRate \in DurFrameRates :
          /\ cmd = [mode |-> "analyze", name |-> "a", dryRun |-> FALSE, forced |-> FALSE,
                    frameRate |-> frameRate, input |-> input, found |-> NoEntry]
          /\ inStream = input
    /\ \E count \in DurCounts :
          loc = [LocInit(getFileEntry(files, "a").id) EXCEPT !.crc = BlackCrc, !.i = count]
    /\ exitCode = -1
    /\ reported = -1
    /\ emitted = <<>>
    /\ runOf = [id \in {} |-> 0]

NextDur ==
    \/ AnalyzeNext
    \/ AnalyzeStatus
    \/ Interrupt

SpecDur == InitDur /\ [][NextDur]_vars

\* One analyze command on an empty index, dry or not, over inputs whose
\* frames come in pairs that differ in the low four bits of their bytes only.
QuantInputs == Inputs(FrameIds, MaxQuantFrames, {0, 100})
QuantFrameRates == {m_FrameRate}

NextQuant ==
    \/ \E input \in QuantInputs, frameRate \in QuantFrameRates :
            AnalyzeNew("a", input, FALSE, frameRate)
    \/ \E input \in QuantInputs, frameRate \in QuantFrameRates :
            AnalyzeDry("a", input, FALSE, frameRate)
    \/ AnalyzeNext
    \/ AnalyzeStatus
    \/ Interrupt

SpecQuant == Init /\ [][NextQuant]_vars

\* A query on an index that analyze commands have filled: up to MaxQueryFiles
\* files, each Analyzed from one of the runs of QueryRuns.  A run is given
\* by its frame rate and its input in chunks: the frames of a chunk (0: a
\* black frame, every pixel below 16), then skip more black frames.
Bright(n) == [j \in 1..n |-> 2]
Dim(n) == [j \in 1..n |-> 3]

QueryRuns ==
    { [frameRate |-> 1, chunks |-> << [frames |-> <<>>, skip |-> 0] >>],
      [frameRate |-> 1, chunks |-> << [frames |-> Bright(5), skip |-> 0] >>],
      [frameRate |-> 1, chunks |-> << [frames |-> Bright(5) \o Dim(3), skip |-> 0] >>],
      [frameRate |-> 1, chunks |-> << [frames |-> Dim(3), skip |-> 0] >>],
      [frameRate |-> 1, chunks |-> << [frames |-> <<3, 2, 3>>, skip |-> 0] >>],
      [frameRate |-> 5, chunks |-> << [frames |-> Bright(5), skip |-> 0] >>],
      [frameRate |-> 1, chunks |-> << [frames |-> <<0>>, skip |-> 2999999],
                                      [frames |-> <<2, 0>>, skip |-> 3000000] >>] }

QueryNames == <<"a", "b", "c", "d", "e">>
TopLimits == {-1, 0, 1, 2, 10}
SearchLimits == {0, 1, 2, 10}

\* the loop of analyzeScenes with db = nullptr, to the end of the input
RECURSIVE DryLoop(_, _, _, _)

\* the flush that the scan has stopped at, and the rest of the loop
DryLoopFlush(at, r, frameRate, flushed) ==
    IF r.ok
    THEN DryLoop(LoopTail(at.loc, r.frame), r.rest, frameRate,
                 Append(flushed, Flushed(at.loc, frameRate)))
    ELSE [loc |-> at.loc, emitted |-> flushed]

DryLoopAt(at, frameRate, flushed) ==
    DryLoopFlush(at, readFrame(at.stream), frameRate, flushed)

DryLoop(l, stream, frameRate, flushed) ==
    DryLoopAt(ScanToFlush(l, stream), frameRate, flushed)

\* count black frames read after a black frame, crc being BlackCrc: no
\* boundary is detected and crc stays what it is (see InitDur)
BlackFrames(l, count) == [l EXCEPT !.i = @ + count]

RECURSIVE RunChunks(_, _, _, _, _)

\* the black frames after the frames of the k-th chunk, and the chunks after it
SkipAfter(after, chunks, k, frameRate) ==
    RunChunks(BlackFrames(after.loc, chunks[k].skip), after.emitted, chunks, k + 1, frameRate)

\* the loop of analyzeScenes over the input from its k-th chunk on
RunChunks(l, flushed, chunks, k, frameRate) ==
    IF k > Len(chunks) THEN [loc |-> l, emitted |-> flushed]
    ELSE SkipAfter(DryLoop(l, [frames |-> chunks[k].frames, extra |-> 0], frameRate, flushed),
                   chunks, k, frameRate)

\* the Scenes that analyzeScenes registers, flushed being those of the loop
\* and l the locals after it
ScenesFlushed(flushed, l, frameRate) ==
    [k \in 1..(Len(flushed) + 1) |->
        IF k <= Len(flushed)
        THEN [sceneId |-> flushed[k].sceneId, fileId |-> l.fileId]
        ELSE PendingScene(l, frameRate)]

ScenesOfLoop(st, frameRate) == ScenesFlushed(st.emitted, st.loc, frameRate)

ScenesOfRun(run, fileId) ==
    ScenesOfLoop(RunChunks(LocInit(fileId), <<>>, run.chunks, 1, run.frameRate),
                 run.frameRate)

RECURSIVE RegisterScenes(_, _, _, _)
RegisterScenes(fs, sc, found, k) ==
    IF k > Len(found) THEN sc
    ELSE RegisterScenes(fs, registerScene(fs, sc, found[k]).scenes, found, k + 1)

\* the index after analyzeScenes has run for the file just registered
AnalyzedAs(fs, sc, fileId, run) ==
    [files |-> updateFileStatus(fs, fileId, kAnalyzed),
     scenes |-> RegisterScenes(fs, sc, ScenesOfRun(run, fileId), 1)]

Registered(fs, sc, name, run) == AnalyzedAs(fs, sc, getFileEntry(fs, name).id, run)

\* the index after a successful analyze of a new name
Analyzed(idx, name, run) ==
    Registered(registerFile(idx.files, name).files, idx.scenes, name, run)

RECURSIVE IndexOf(_, _, _)
IndexOf(runs, k, idx) ==
    IF k > Len(runs) THEN idx
    ELSE IndexOf(runs, k + 1, Analyzed(idx, QueryNames[k], runs[k]))

InitQuery ==
    /\ crc32acc(BlackCrc, kFrameSize, Buffer[0]) = BlackCrc
    /\ ~ExceedsThreshold(ErrorTab[0][0])
    /\ \E n \in 0..MaxQueryFiles : \E runs \in [1..n -> QueryRuns] :
          /\ files = IndexOf(runs, 1, [files |-> {}, scenes |-> <<>>]).files
          /\ scenes = IndexOf(runs, 1, [files |-> {}, scenes |-> <<>>]).scenes
    /\ pc = "idle"
    /\ cmd = NoCmd
    /\ inStream = EmptyInput
    /\ loc = NoLoc
    /\ exitCode = -1
    /\ reported = -1
    /\ emitted = <<>>
    /\ runOf = [id \in {} |-> 0]

NextQuery ==
    \/ \E limit \in TopLimits : top(limit)
    \/ \E fileId \in 1..MaxQueryFiles, limit \in SearchLimits : searchFile(fileId, limit)

SpecQuery == InitQuery /\ [][NextQuery]_vars

\* Analyze commands for new names, which a kill or a store error can end
\* before the file is marked Analyzed, over inputs that may hold no complete
\* frame, and the commands that read the index.
StaleInputs == Inputs({1, 2}, MaxFrames, {0, 100})
StaleLimits == {-1, 0, 1, 10}

NextStale ==
    \/ \E name \in Names, input \in StaleInputs, frameRate \in CmdFrameRates :
            AnalyzeNew(name, input, FALSE, frameRate)
    \/ AnalyzeNext
    \/ AnalyzeStatus
    \/ Interrupt
    \/ Exit
    \/ \E name \in Names : ExecSearch(name)
    \/ \E name \in Names : ExecFileScenes(name)
    \/ \E limit \in StaleLimits : top(limit)

SpecStale == Init /\ [][NextStale]_vars

\* One non-dry-run analyze command on an empty index with the option
\* --frame-rate, its argument being any of FrameRateArgs, or without it.
FrameRateArgs ==
    { <<"3", "0">>, <<"1">>, <<"0">>, <<"0", "0">>, <<"-", "0">>, <<"+", "7">>,
      <<" ", "0">>, <<>>, <<"x">>, <<"-">>, <<"3", "0", "x">>, <<"0", " ">> }

RateInputs == Inputs({1, 2}, MaxFrames, {0})

NextRate ==
    \/ \E input \in RateInputs, arg \in FrameRateArgs : AnalyzeFrameRate("a", input, arg)
    \/ \E input \in RateInputs : AnalyzeNew("a", input, FALSE, m_FrameRate)
    \/ AnalyzeNext
    \/ AnalyzeStatus
    \/ Interrupt

SpecRate == Init /\ [][NextRate]_vars

----------------------------------------------------------------------------
(* Segmentation: claims C7, C9, C10 *)

\* analyzeScenes has run to its report (line 672)
RunComplete == pc = "done" /\ cmd.mode = "analyze" /\ reported >= 0

\* the complete frames of the input of the command
N == Len(cmd.input.frames)

\* the checksum of the frames [first, last) of the input, folded from zero
RECURSIVE HashOfFrames(_, _, _, _)
HashOfFrames(acc, frames, first, last) ==
    IF first >= last THEN acc
    ELSE HashOfFrames(CrcTab[<<acc, frames[first + 1]>>], frames, first + 1, last)

RECURSIVE SumOfCounts(_, _)
SumOfCounts(flushed, k) ==
    IF k = 0 THEN 0 ELSE SumOfCounts(flushed, k - 1) + (flushed[k].last - flushed[k].first)

\* a boundary is detected at frame index j (0-based) of the input
BoundaryAt(frames, j) ==
    ExceedsThreshold(ErrorTab[frames[j + 1]][IF j = 0 THEN 0 ELSE frames[j]])

\* Reference segmentation: the frames [first, j) are pending; a scene ends at
\* every boundary at an index > 0 and at the end of the complete frames.
RECURSIVE RefScenesFrom(_, _, _, _, _)
RefScenesFrom(frames, frameRate, first, j, out) ==
    LET scene == [sceneId |-> [hash |-> HashOfFrames(ZeroU32, frames, first, j),
                               durationMs |-> U32(((j - first) * 1000) \div frameRate)],
                  first |-> first, last |-> j]
    IN  IF j >= Len(frames) THEN Append(out, scene)
        ELSE IF j > first /\ BoundaryAt(frames, j)
             THEN RefScenesFrom(frames, frameRate, j, j + 1, Append(out, scene))
             ELSE RefScenesFrom(frames, frameRate, first, j + 1, out)

RefScenes(input, frameRate) ==
    RefScenesFrom(input.frames, frameRate, 0, IF input.frames = <<>> THEN 0 ELSE 1, <<>>)

\* the scene rows that registering the scenes flushed for file id inserts
RowsFor(flushed, id) ==
    [k \in 1..Len(flushed) |->
        [hash |-> ToInt(flushed[k].sceneId.hash),
         duration_ms |-> ToInt(flushed[k].sceneId.durationMs), file_id |-> id]]

\* the scene rows owned by file id, in rowid order
RowsOf(sc, id) == SelectSeq(sc, LAMBDA row : row.file_id = id)

IsPrefix(s, t) == Len(s) <= Len(t) /\ s = SubSeq(t, 1, Len(s))

\* C7: the scenes emitted by one run, in emission order, partition the
\* complete frames of the input: the first starts at frame 0, each starts
\* where the one before ends, each carries the checksum of exactly the frames
\* it covers, and when the run has completed the frame counts sum to N.
C7_Partition ==
    /\ \A k \in 1..Len(emitted) :
          /\ emitted[k].first = (IF k = 1 THEN 0 ELSE emitted[k - 1].last)
          /\ emitted[k].first <= emitted[k].last
          /\ emitted[k].last <= N
          /\ emitted[k].sceneId.hash
                = HashOfFrames(ZeroU32, cmd.input.frames, emitted[k].first, emitted[k].last)
    /\ RunComplete =>
          /\ Len(emitted) >= 1
          /\ emitted[Len(emitted)].last = N
          /\ SumOfCounts(emitted, Len(emitted)) = N

C7_Witness ==
    /\ RunComplete /\ ~cmd.dryRun /\ exitCode = 0
    /\ N = 5 /\ cmd.input.extra = 100
    /\ Len(emitted) = 3
    /\ emitted[2].first = 2 /\ emitted[2].last = 4

C10_TwoScenes ==
    \A k \in 1..N, f0 \in FrameIds, f1 \in FrameIds :
        (/\ RunComplete
         /\ k < N
         /\ cmd.input.frames = [j \in 1..N |-> IF j <= k THEN f0 ELSE f1]
         /\ ExceedsThreshold(rmse(Buffer[f0], Buffer[f1])))
            => /\ Len(emitted) = 2
               /\ emitted[1].first = 0 /\ emitted[1].last = k
               /\ emitted[2].first = k /\ emitted[2].last = N

\* the case of the specification: [f0, f0, f0, f1, f1], f0 within the
\* threshold of the zero buffer
C10_Witness ==
    /\ RunComplete /\ ~cmd.dryRun /\ exitCode = 0
    /\ cmd.input.frames = <<1, 1, 1, 2, 2>>
    /\ ~BoundaryAt(cmd.input.frames, 0)
    /\ Len(emitted) = 2
    /\ emitted[1].last = 3 /\ emitted[2].last = 5

----------------------------------------------------------------------------
(* The index under the commands: claims C1 to C6 *)

\* the step starts an analyze command
StartsAnalyze == pc = "idle" /\ cmd'.mode = "analyze"

\* the entry the started command found is Analyzed and --force is not given
AlreadyExists(c) == c.found.id >= 0 /\ c.found.status = kAnalyzed /\ ~c.forced

C1_Step ==
    \* a file row is created Unanalyzed
    /\ \A row \in files' : row.id \notin FileIds(files) => row.status = kNone
    \* a scene row is inserted only for a file row that is there, Unanalyzed
    /\ \A id \in 1..MaxFileId :
          Len(RowsOf(scenes', id)) > Len(RowsOf(scenes, id))
              => \E row \in files : row.id = id /\ row.status = kNone
    \* a row becomes Analyzed at the end of its run, all scenes registered
    /\ \A row \in files' :
          (row.status = kAnalyzed /\ row \notin files)
              => /\ pc = "status" /\ loc.fileId = row.id /\ row.path = cmd.name
                 /\ scenes' = scenes
                 /\ RowsOf(scenes, row.id)
                        = RowsFor(RefScenes(cmd.input, cmd.frameRate), row.id)
    \* a run that is killed or fails leaves its row Unanalyzed
    /\ (pc \in {"loop", "status"} /\ pc' = "done" /\ exitCode' # 0)
          => /\ getFileEntry(files', cmd.name) = [id |-> loc.fileId, status |-> kNone]
             /\ IsPrefix(RowsOf(scenes', loc.fileId),
                         RowsFor(RefScenes(cmd.input, cmd.frameRate), loc.fileId))
    \* an Analyzed row has the complete scene list of the run that marked it
    /\ \A row \in files' :
          row.status = kAnalyzed
              => /\ row.id \in DOMAIN runOf'
                 /\ RowsOf(scenes', row.id)
                        = RowsFor(RefScenes(runOf'[row.id].input, runOf'[row.id].frameRate),
                                  row.id)

\* C1: in a non-dry-run analyze the file row is created Unanalyzed before any
\* of its scenes is registered and becomes Analyzed only after the trailing
\* scene of the run is registered; a run that is interrupted or whose
\* registerScene or updateFileStatus fails leaves the row Unanalyzed with a
\* prefix of its scenes; no Analyzed file has an incomplete scene list.
C1_StatusAfterScenes == [][C1_Step]_vars

\* a killed run has left an Unanalyzed row with one of its two scenes
C1_Witness ==
    /\ pc = "done" /\ cmd.mode = "analyze" /\ ~cmd.dryRun /\ exitCode = -1
    /\ getFileEntry(files, cmd.name).id >= 0
    /\ getFileEntry(files, cmd.name).status = kNone
    /\ Len(RowsOf(scenes, getFileEntry(files, cmd.name).id)) = 1
    /\ Len(RefScenes(cmd.input, cmd.frameRate)) = 2

\* C2: after any sequence of analyze, forced re-analyze and delete commands,
\* failed and killed runs included, every Analyzed file row owns at least one
\* scene row.
C2_AnalyzedOwnsScene ==
    \A row \in files :
        row.status = kAnalyzed => \E k \in 1..Len(scenes) : scenes[k].file_id = row.id

\* an Analyzed file whose only scene is the trailing one: no boundary was
\* detected in its input, frame 0 included
C2_Witness ==
    \E row \in files :
        /\ row.status = kAnalyzed
        /\ Len(RowsOf(scenes, row.id)) = 1
        /\ runOf[row.id].input.frames # <<>>
        /\ \A j \in 0..(Len(runOf[row.id].input.frames) - 1) :
              ~BoundaryAt(runOf[row.id].input.frames, j)

\* C3: analyze without --force on a name whose entry is Analyzed returns 0
\* and changes no file row and no scene row, whatever the input holds.
C3_AlreadyExistsNoOp ==
    [][(StartsAnalyze /\ AlreadyExists(cmd'))
          => (pc' = "done" /\ exitCode' = 0 /\ files' = files /\ scenes' = scenes)]_vars

\* the command has returned 0 on an input other than the one analyzed before
C3_Witness ==
    /\ pc = "done" /\ cmd.mode = "analyze" /\ AlreadyExists(cmd) /\ exitCode = 0
    /\ ~cmd.dryRun
    /\ cmd.input.frames # <<>>
    /\ cmd.found.id \in DOMAIN runOf
    /\ runOf[cmd.found.id].input # cmd.input

\* a forced non-dry-run analyze of a name whose entry was Analyzed has returned 0
ForcedReanalysisDone ==
    /\ pc = "done" /\ cmd.mode = "analyze" /\ exitCode = 0
    /\ ~cmd.dryRun /\ cmd.forced
    /\ cmd.found.id >= 0 /\ cmd.found.status = kAnalyzed

\* C4: after a successful forced re-analysis the scene rows of the name's
\* file are exactly the scenes the new run emitted, in emission order, no
\* row of the old entry remains, and the file is Analyzed.
C4_ForcedReplaces ==
    ForcedReanalysisDone =>
        LET entry == getFileEntry(files, cmd.name)
        IN  /\ entry.id >= 0
            /\ entry.status = kAnalyzed
            /\ emitted = RefScenes(cmd.input, cmd.frameRate)
            /\ RowsOf(scenes, entry.id) = RowsFor(emitted, entry.id)
            /\ entry.id # cmd.found.id => RowsOf(scenes, cmd.found.id) = <<>>

\* the new entry has another id than the old one, and two scenes
C4_Witness ==
    /\ ForcedReanalysisDone
    /\ getFileEntry(files, cmd.name).id # cmd.found.id
    /\ Len(emitted) = 2
    /\ Len(RowsOf(scenes, getFileEntry(files, cmd.name).id)) = 2

\* the original C5: dry-run analyze changes no row for any prior index state
\* and any combination of force and existing entry, and the segmentation loop
\* runs over the whole stream and computes the scenes of a non-dry run.
C5_DryRunAlwaysSegments ==
    [][(StartsAnalyze /\ cmd'.dryRun)
          => /\ files' = files /\ scenes' = scenes
             /\ pc' = "done"
             /\ emitted' = RefScenes(cmd'.input, cmd'.frameRate)]_vars

\* C5, amended: dry-run analyze changes no row for any prior index state and
\* any combination of force and existing entry; unless the entry is Analyzed
\* and --force is not given, the segmentation loop runs over the whole stream
\* and computes the scenes a non-dry run registers; in that one case the
\* command returns 0 ("already exists") and computes no scene.
C5_DryRunNoMutation ==
    [][/\ (StartsAnalyze /\ cmd'.dryRun)
            => /\ files' = files /\ scenes' = scenes
               /\ pc' = "done" /\ exitCode' = 0
               /\ emitted' = IF AlreadyExists(cmd') THEN <<>>
                             ELSE RefScenes(cmd'.input, cmd'.frameRate)
       /\ (pc = "status" /\ pc' = "done" /\ exitCode' = 0)
            => /\ emitted = RefScenes(cmd.input, cmd.frameRate)
               /\ RowsOf(scenes', loc.fileId) = RowsFor(emitted, loc.fileId)]_vars

\* a forced dry run over an Analyzed entry has computed two scenes, and the
\* entry is as the command found it
C5_Witness ==
    /\ pc = "done" /\ cmd.mode = "analyze" /\ cmd.dryRun /\ cmd.forced
    /\ cmd.found.id >= 0 /\ cmd.found.status = kAnalyzed
    /\ getFileEntry(files, cmd.name) = cmd.found
    /\ Len(emitted) = 2
    /\ runOf[cmd.found.id].input # cmd.input

\* C6: when deleteFile(fileId) succeeds, no scene row owned by fileId remains
\* (getScenesByFile on that id is empty) and the scene rows of every other
\* file are unchanged.
C6_DeleteCascades ==
    [][\A fileId \in FileIds(files) \ FileIds(files') :
          /\ getScenesByFile(scenes', fileId) = <<>>
          /\ \A other \in (1..MaxFileId) \ {fileId} :
                RowsOf(scenes', other) = RowsOf(scenes, other)]_vars

\* an Analyzed file has been deleted and the scenes of the other file remain
C6_Witness ==
    /\ pc = "done" /\ cmd.mode = "delete" /\ exitCode = 0
    /\ cmd.found.id >= 0 /\ cmd.found.status = kAnalyzed
    /\ cmd.found.id \notin FileIds(files)
    /\ getScenesByFile(scenes, cmd.found.id) = <<>>
    /\ Len(scenes) >= 2

----------------------------------------------------------------------------
(* Duration: claim C8 *)

\* (count * 1000) / frameRate, truncated, without a limit of width: the four
\* low bytes, least significant first, and what lies above them
ExactDurationMs(count, frameRate) ==
    LET q == U32(count \div frameRate)
        t1 == q[1] * 1000 + (((count % frameRate) * 1000) \div frameRate)
        t2 == q[2] * 1000 + (t1 \div 256)
        t3 == q[3] * 1000 + (t2 \div 256)
        t4 == q[4] * 1000 + (t3 \div 256)
    IN  <<t1 % 256, t2 % 256, t3 % 256, t4 % 256, t4 \div 256>>

\* C8: every scene analyzeScenes registers has durationMs equal to the
\* truncated quotient (frameCount * 1000) / frameRate, frameCount being the
\* number of frames the scene covers, for every frameCount of the 32-bit
\* counter and every frameRate >= 1.
C8_DurationIsQuotient ==
    \A k \in 1..Len(emitted) :
        emitted[k].sceneId.durationMs \o <<0>>
            = ExactDurationMs(emitted[k].last - emitted[k].first, cmd.frameRate)

----------------------------------------------------------------------------
(* Frame reader and report of analyzeScenes: claims C11, C12, C13 *)

\* the raw frames f and g agree on the high four bits of every byte
SameHighBits(f, g) ==
    \A p \in 1..kFrameSize : Palette[f][p] \div 16 = Palette[g][p] \div 16

\* for every raw frame, the raw frames that differ from it in low bits at most
TwinFrames == [f \in FrameIds |-> {g \in FrameIds : SameHighBits(f, g)}]

\* the inputs of the length of input that differ from it in low bits at most
Twins(input) ==
    {[frames |-> fr, extra |-> input.extra] :
        fr \in {t \in [1..Len(input.frames) -> FrameIds] :
                    \A j \in 1..Len(input.frames) : t[j] \in TwinFrames[input.frames[j]]}}

SceneIdsOf(flushed) == [k \in 1..Len(flushed) |-> flushed[k].sceneId]

\* C11: two inputs of the same length that differ only in the low 4 bits of
\* some bytes yield the same sequence of SceneIds: the run of the command on
\* one of them emits what analyzeScenes computes on every other one.
C11_LowBitsIgnored ==
    RunComplete =>
        \A twin \in Twins(cmd.input) :
            SceneIdsOf(DryAnalyzeScenes(LocInit(-1), twin, cmd.frameRate, <<>>).emitted)
                = SceneIdsOf(emitted)

C11_Witness ==
    /\ RunComplete /\ ~cmd.dryRun /\ exitCode = 0
    /\ cmd.input.frames = <<1, 5, 3>>
    /\ [frames |-> <<4, 2, 6>>, extra |-> cmd.input.extra] \in Twins(cmd.input)
    /\ Palette[1] # Palette[4] /\ Palette[5] # Palette[2] /\ Palette[3] # Palette[6]
    /\ Len(emitted) = 3

\* the length of an input in bytes
ByteLength(input) == Len(input.frames) * kFrameSize + input.extra

\* C12: when the length of the input is not a multiple of 256 the partial
\* last frame is dropped without error: the loop ends after exactly
\* floor(length / 256) frames, the pending scene is flushed up to that
\* frame, and the run that reports has marked the file Analyzed and returns 0.
C12_PartialFrameDropped ==
    (cmd.mode = "analyze" /\ ByteLength(cmd.input) % kFrameSize # 0) =>
        /\ loc.i <= ByteLength(cmd.input) \div kFrameSize
        /\ \A k \in 1..Len(emitted) : emitted[k].last <= ByteLength(cmd.input) \div kFrameSize
        /\ pc = "status" =>
              /\ loc.i = ByteLength(cmd.input) \div kFrameSize
              /\ emitted # <<>>
              /\ emitted[Len(emitted)].last = ByteLength(cmd.input) \div kFrameSize
        /\ RunComplete =>
              /\ emitted # <<>>
              /\ emitted[Len(emitted)].last = ByteLength(cmd.input) \div kFrameSize
              /\ exitCode = 0
              /\ ~cmd.dryRun => getFileEntry(files, cmd.name).status = kAnalyzed

C12_Witness ==
    /\ RunComplete /\ ~cmd.dryRun /\ exitCode = 0
    /\ ByteLength(cmd.input) = 2 * kFrameSize + 100
    /\ emitted[Len(emitted)].last = 2
    /\ getFileEntry(files, cmd.name).status = kAnalyzed

\* C13: the total that a run reports equals the number of scenes the run
\* has flushed.
C13_ReportedIsFlushed == RunComplete => reported = Len(emitted)

----------------------------------------------------------------------------
(* Queries: claims C14 to C20 *)

\* top has returned 0
TopDone == pc = "done" /\ cmd.mode = "top" /\ exitCode = 0

\* searchFile has returned
SearchDone == pc = "done" /\ cmd.mode = "search"

\* the SceneId of a scene row
SceneIdOf(row) == [hash |-> FromInt(row.hash), durationMs |-> FromInt(row.duration_ms)]

\* the number of scene rows with the SceneId
Occurrences(sceneId) ==
    Cardinality({k \in DOMAIN scenes : SceneIdOf(scenes[k]) = sceneId})

\* C14: getTopHashes never returns a SceneId that occurs in one row or in
\* none, and the count it returns with a SceneId is the number of scene rows
\* with exactly that hash and durationMs.
C14_TopHashesShared ==
    TopDone =>
        \A k \in DOMAIN loc.hashCounts :
            /\ loc.hashCounts[k].count > 1
            /\ loc.hashCounts[k].count = Occurrences(loc.hashCounts[k].sceneId)

\* a SceneId in four rows of two files is returned, one in a single row is not
C14_Witness ==
    /\ TopDone /\ cmd.limit = 10
    /\ \E k \in DOMAIN loc.hashCounts : loc.hashCounts[k].count = 4
    /\ \E j \in DOMAIN scenes :
          /\ Occurrences(SceneIdOf(scenes[j])) = 1
          /\ \A k \in DOMAIN loc.hashCounts : loc.hashCounts[k].sceneId # SceneIdOf(scenes[j])

\* the SceneIds that getTopHashes has returned
Returned == {loc.hashCounts[k].sceneId : k \in DOMAIN loc.hashCounts}

\* the SceneIds of the groups with more than one row
Qualifying == {SceneIdOf(scenes[j]) : j \in {i \in DOMAIN scenes :
                                                Occurrences(SceneIdOf(scenes[i])) > 1}}

\* C15: for every limit >= 0 getTopHashes returns at most limit entries, in
\* non-increasing order of durationMs, and every entry it returns has a
\* durationMs at least that of every qualifying group it does not return.
C15_TopHashesByDuration ==
    (TopDone /\ cmd.limit >= 0) =>
        /\ Len(loc.hashCounts) <= cmd.limit
        /\ \A k \in 1..(Len(loc.hashCounts) - 1) :
              ~LessU32(loc.hashCounts[k].sceneId.durationMs,
                       loc.hashCounts[k + 1].sceneId.durationMs)
        /\ \A r \in Returned, q \in Qualifying \ Returned :
              ~LessU32(r.durationMs, q.durationMs)

\* C16: in the output of top every unordered pair of distinct files appears
\* at most once: no line pairs a file with itself, and no two lines name the
\* same two files, in the same order or swapped.
C16_PairsOnce ==
    TopDone =>
        /\ \A k \in DOMAIN emitted : emitted[k].first # emitted[k].second
        /\ \A j \in DOMAIN emitted, k \in DOMAIN emitted :
              j # k => {emitted[j].first, emitted[j].second}
                          # {emitted[k].first, emitted[k].second}

\* three files that share scenes two by two: three lines
C16_Witness ==
    /\ TopDone /\ cmd.limit = 2
    /\ Len(loc.hashCounts) = 2
    /\ {{emitted[k].first, emitted[k].second} : k \in DOMAIN emitted}
          = {{"a", "b"}, {"a", "c"}, {"b", "c"}}

\* the file with the name owns a scene row with the SceneId
OccursIn(sceneId, name) ==
    \E j \in DOMAIN scenes : /\ scenes[j].file_id = getFileEntry(files, name).id
                             /\ SceneIdOf(scenes[j]) = sceneId

\* the candidate SceneIds that occur in both files
SharedCandidates(f, g) == {c \in Returned : OccursIn(c, f) /\ OccursIn(c, g)}

\* w + x for a five-byte w and a four-byte x: no sum of the model overflows it
AddWide(w, x) ==
    LET t1 == w[1] + x[1]
        t2 == w[2] + x[2] + (t1 \div 256)
        t3 == w[3] + x[3] + (t2 \div 256)
        t4 == w[4] + x[4] + (t3 \div 256)
    IN  <<t1 % 256, t2 % 256, t3 % 256, t4 % 256, w[5] + (t4 \div 256)>>

\* the sum of the durationMs of the SceneIds of S
RECURSIVE SumOfDurations(_)
SumOfDurations(S) ==
    IF S = {} THEN <<0, 0, 0, 0, 0>>
    ELSE LET c == CHOOSE c \in S : TRUE
         IN  AddWide(SumOfDurations(S \ {c}), c.durationMs)

\* the pairs of distinct files that share a candidate SceneId
SharingPairs ==
    {pair \in {{f.path, g.path} : f \in files, g \in files} :
        \E f \in pair, g \in pair : f # g /\ SharedCandidates(f, g) # {}}

\* C17: the weight that top prints for a pair of files is the sum of the
\* durationMs of the candidate SceneIds (those getTopHashes(limit) returned)
\* that occur in both files, each counted once; and top prints exactly the
\* pairs of distinct files that share a candidate.
C17_WeightIsSum ==
    TopDone =>
        /\ \A k \in DOMAIN emitted :
              <<emitted[k].durationMs[1], emitted[k].durationMs[2],
                emitted[k].durationMs[3], emitted[k].durationMs[4], 0>>
                 = SumOfDurations(SharedCandidates(emitted[k].first, emitted[k].second))
        /\ {{emitted[k].first, emitted[k].second} : k \in DOMAIN emitted} = SharingPairs

\* the SceneIds of the scene rows of the file with the id
SceneIdsOfFile(fileId) ==
    {SceneIdOf(scenes[j]) : j \in {i \in DOMAIN scenes : scenes[i].file_id = fileId}}

\* C18: searchFile(fileId, limit) never lists fileId itself, whatever it
\* prints before it returns.
C18_NeverItself ==
    SearchDone =>
        \A k \in DOMAIN emitted : emitted[k].name # getFileName(files, cmd.fileId)

\* the queried file owns every SceneId of the index, one of them in two
\* rows, and other files are listed
C18_Witness ==
    /\ SearchDone /\ exitCode = 0 /\ cmd.limit = 10
    /\ SceneIdsOfFile(cmd.fileId) = {SceneIdOf(scenes[j]) : j \in DOMAIN scenes}
    /\ \E i \in DOMAIN scenes, j \in DOMAIN scenes :
          /\ i # j
          /\ scenes[i].file_id = cmd.fileId /\ scenes[j].file_id = cmd.fileId
          /\ SceneIdOf(scenes[i]) = SceneIdOf(scenes[j])
    /\ Len(emitted) = 2

\* the id of the file that a printed line names
IdOf(line) == getFileEntry(files, line.name).id

\* C19: the count that searchFile prints for a file g is the number of
\* distinct SceneIds that the queried file and g share: a shared SceneId
\* contributes 1 even when the queried file owns several rows with it.
C19_CountsDistinctShared ==
    SearchDone =>
        \A k \in DOMAIN emitted :
            emitted[k].count
                = Cardinality(SceneIdsOfFile(cmd.fileId) \cap SceneIdsOfFile(IdOf(emitted[k])))

\* C19, as the code has it: the count that searchFile prints for a file g is
\* the number of scene rows of the queried file whose SceneId g owns; each
\* of these rows contributes 1, however many rows of g carry the SceneId.
C19_CountsRowsOfQueried ==
    SearchDone =>
        \A k \in DOMAIN emitted :
            emitted[k].count
                = Cardinality({j \in DOMAIN scenes :
                                  /\ scenes[j].file_id = cmd.fileId
                                  /\ SceneIdOf(scenes[j]) \in SceneIdsOfFile(IdOf(emitted[k]))})

\* the queried file owns a SceneId in two rows and the listed file owns it
\* in two rows too: three rows of the queried file match, on two SceneIds
C19_Witness ==
    /\ SearchDone /\ exitCode = 0
    /\ \E k \in DOMAIN emitted :
          /\ emitted[k].count = 3
          /\ Cardinality(SceneIdsOfFile(cmd.fileId) \cap SceneIdsOfFile(IdOf(emitted[k]))) = 2
          /\ Cardinality({j \in DOMAIN scenes : scenes[j].file_id = IdOf(emitted[k])}) = 3

\* the count of searchFile for the file with the id
CountFor(fileId) ==
    Cardinality({j \in DOMAIN scenes : /\ scenes[j].file_id = cmd.fileId
                                       /\ SceneIdOf(scenes[j]) \in SceneIdsOfFile(fileId)})

\* the candidates of searchFile: the other files with a count
CandidateIds == {fileId \in FileIds(files) \ {cmd.fileId} : CountFor(fileId) > 0}

\* C20: for every limit >= 0 searchFile prints at most limit entries, in
\* non-increasing order of count, every printed entry with a count at least
\* that of every candidate it does not print; when there is no candidate it
\* reports "no duplicated videos." and returns 0.
C20_SearchLimit ==
    (SearchDone /\ exitCode = 0 /\ cmd.limit >= 0) =>
        /\ Len(emitted) <= cmd.limit
        /\ \A k \in 1..(Len(emitted) - 1) : emitted[k].count >= emitted[k + 1].count
        /\ \A k \in DOMAIN emitted :
              \A fileId \in CandidateIds \ {IdOf(emitted[j]) : j \in DOMAIN emitted} :
                  emitted[k].count >= CountFor(fileId)
        /\ CandidateIds = {} => (emitted = <<>> /\ loc.message = "no duplicated videos.")
        /\ CandidateIds # {} => loc.message = ""

----------------------------------------------------------------------------
(* Failure of a query: claim C21 *)

\* searchFile or top has returned
QueryDone == pc = "done" /\ cmd.mode \in {"search", "top"}

\* what searchFile prints for the index and the command when no query fails
SearchOutputs ==
    {PrintLoop(files, fileAndCounts, 0, cmd.limit, <<>>) :
        fileAndCounts \in SortByCount(Candidates(SortedFound(scenes, cmd.fileId),
                                                  cmd.fileId))}

\* what top prints for the candidates hashCounts when no query fails
TopOutputs(found) ==
    {TopLines(files, relations) :
        relations \in SortByDuration(Relations(RelationMap(
                          found, {found[k].fileId : k \in DOMAIN found}, NoRelationMap)))}

\* C21: when a query of searchFile or top has failed, the command returns 1;
\* a command that returns 0 has had no failing query and has printed the
\* whole result for the index, never a part of it.
C21_FailureAborts ==
    QueryDone =>
        /\ loc.failed # "" => exitCode = 1
        /\ exitCode = 0 =>
              /\ loc.failed = ""
              /\ cmd.mode = "search" => emitted \in SearchOutputs
              /\ cmd.mode = "top" =>
                    /\ loc.hashCounts \in getTopHashes(scenes, cmd.limit)
                    /\ emitted \in TopOutputs(FoundForHashes(scenes, loc.hashCounts, 1, <<>>))

\* searchFile has printed a line, then a getFileName has failed
C21_Witness ==
    /\ QueryDone
    /\ cmd.mode = "search"
    /\ loc.failed = "getFileName"
    /\ emitted # <<>>
    /\ exitCode = 1

----------------------------------------------------------------------------
(* Commands on a stale entry: claim C22 *)

\* a command that reads the scenes of a file has returned, no query having
\* failed, and the entry it has found has the status of a file whose analysis
\* has not completed
ReadStale ==
    /\ pc = "done"
    /\ cmd.mode \in {"search", "file-scenes"}
    /\ loc.failed = ""
    /\ \E row \in files : row.id = cmd.fileId /\ row.status = kNone

\* C22: --search and --file-scenes on a name whose entry is not Analyzed
\* report "not analyzed" and print no result computed from the scenes that
\* the entry owns.
C22_StaleReported ==
    ReadStale => loc.message = "not analyzed" /\ emitted = <<>> /\ exitCode # 0

----------------------------------------------------------------------------
(* Boundary at frame 0: claim C23 *)

\* an analyzeScenes run is under way or has ended
Analyzing == cmd.mode = "analyze" /\ pc \in {"loop", "status", "done"}

\* C23: no flushed scene covers zero frames when the input has a complete
\* frame; when frame 0 exceeds the threshold against the zero buffer, no
\* scene is flushed for it: the first scene flushed starts at frame 0, crc
\* and the start index having been reset, and as many rows are registered as
\* scenes are flushed.
C23_NoZeroFrameScene ==
    (Analyzing /\ N >= 1) =>
        /\ \A k \in 1..Len(emitted) : emitted[k].last - emitted[k].first >= 1
        /\ (BoundaryAt(cmd.input.frames, 0) /\ emitted # <<>>) =>
              /\ emitted[1].first = 0
              /\ emitted[1].sceneId.hash
                    = HashOfFrames(ZeroU32, cmd.input.frames, 0, emitted[1].last)
        /\ ~cmd.dryRun => Len(scenes) = Len(emitted)

\* frame 0 and frame 1 both exceed the threshold: one scene of one frame is
\* registered at frame 1, none at frame 0
C23_Witness ==
    /\ Analyzing /\ ~cmd.dryRun /\ pc = "loop"
    /\ N >= 2
    /\ BoundaryAt(cmd.input.frames, 0)
    /\ BoundaryAt(cmd.input.frames, 1)
    /\ Len(scenes) = 1
    /\ emitted[1].first = 0 /\ emitted[1].last = 1

----------------------------------------------------------------------------
(* The hash of a scene, byte by byte: claim C24 *)

\* the checksum of the n bytes buf[p + 1 .. p + n] folded one by one.  (The
\* tests on the first byte of a checksum are true of every U32; they make
\* TLC evaluate a step before it goes on.)
RECURSIVE FoldLine(_, _, _, _)
FoldLine(acc, buf, p, n) ==
    IF n = 0 THEN acc
    ELSE IF crc32_u8(acc, buf[p + 1])[1] >= 0
         THEN FoldLine(crc32_u8(acc, buf[p + 1]), buf, p + 1, n - 1)
         ELSE acc

\* the checksum of the bytes buf[p + 1 .. kFrameSize] folded one by one, 16
\* bytes after 16 bytes
RECURSIVE FoldBytes(_, _, _)
FoldBytes(acc, buf, p) ==
    IF p >= kFrameSize THEN acc
    ELSE IF FoldLine(acc, buf, p, 16)[1] >= 0
         THEN FoldBytes(FoldLine(acc, buf, p, 16), buf, p + 16)
         ELSE acc

\* FoldBytes for every frame of the palette and every accumulator that n
\* frames can lead to, computed once
RECURSIVE ByteClosure(_, _, _)
ByteClosure(tab, accs, n) ==
    IF n = 0 \/ accs = {} THEN tab
    ELSE LET all == tab @@ [key \in accs \X FrameIds |->
                               FoldBytes(key[1], Buffer[key[2]], 0)]
         IN  ByteClosure(all, {all[key] : key \in accs \X FrameIds}
                                 \ {key[1] : key \in DOMAIN all}, n - 1)

ByteTab == ByteClosure([key \in {} |-> ZeroU32], {ZeroU32}, MaxQuantFrames)

\* the bytes of the quantized frames [first, last) folded in order from acc
RECURSIVE ByteHash(_, _, _, _)
ByteHash(acc, frames, first, last) ==
    IF first >= last THEN acc
    ELSE ByteHash(ByteTab[<<acc, frames[first + 1]>>], frames, first + 1, last)

\* buf with the bit 0x10 of its byte p inverted: another quantized frame
FlipAt(buf, p) ==
    [q \in 1..kFrameSize |-> IF q = p THEN Xor8(buf[q], 16) ELSE buf[q]]

\* the checksum of a frame changes with each one of its bytes
EveryByteCounts ==
    \A f \in SegFrameIds, p \in 1..kFrameSize :
        crc32acc(ZeroU32, kFrameSize, FlipAt(Buffer[f], p))
            # crc32acc(ZeroU32, kFrameSize, Buffer[f])

\* C24: the hash of every flushed scene is the checksum folded from zero,
\* byte by byte and in order, over the quantized frames that the scene
\* covers and over no other frame; every scene but the first starts with the
\* frame that the boundary was detected at; and the checksum of a frame
\* depends on each of its 256 bytes.
C24_HashIsByteFold ==
    /\ EveryByteCounts
    /\ Analyzing =>
          \A k \in 1..Len(emitted) :
              /\ emitted[k].sceneId.hash
                    = ByteHash(ZeroU32, cmd.input.frames, emitted[k].first, emitted[k].last)
              /\ k > 1 => /\ emitted[k].first = emitted[k - 1].last
                          /\ BoundaryAt(cmd.input.frames, emitted[k].first)

\* a scene of two frames that differ in their low bits, then one of one
\* frame that starts at a boundary
C24_Witness ==
    /\ RunComplete /\ ~cmd.dryRun /\ exitCode = 0
    /\ N = 3
    /\ cmd.input.frames[1] # cmd.input.frames[2]
    /\ Len(emitted) = 2
    /\ emitted[1].first = 0 /\ emitted[1].last = 2
    /\ emitted[2].first = 2 /\ emitted[2].last = 3
    /\ emitted[1].sceneId.hash # emitted[2].sceneId.hash

----------------------------------------------------------------------------
(* The list of top: claim C25 *)

\* C25: top prints one line for every pair of distinct files that share a
\* candidate SceneId and no other line, in non-increasing order of the
\* accumulated DurationMs; limit bounds the candidates taken from
\* getTopHashes, not the lines.
C25_TopEmitsAllPairs ==
    TopDone =>
        /\ {{emitted[k].first, emitted[k].second} : k \in DOMAIN emitted} = SharingPairs
        /\ Len(emitted) = Cardinality(SharingPairs)
        /\ \A k \in 1..(Len(emitted) - 1) :
              ~LessU32(emitted[k].durationMs, emitted[k + 1].durationMs)
        /\ cmd.limit >= 0 => Len(loc.hashCounts) <= cmd.limit

\* limit 1, one candidate SceneId that three files own: three lines
C25_Witness ==
    /\ TopDone /\ cmd.limit = 1
    /\ Len(loc.hashCounts) = 1
    /\ Cardinality(files) = 3
    /\ Len(emitted) = 3

----------------------------------------------------------------------------
(* Analyze of a name with an unfinished entry: claim C26 *)

\* a non-dry-run analyze has found an entry that is not Analyzed
FoundStale ==
    /\ cmd.mode = "analyze" /\ ~cmd.dryRun
    /\ cmd.found.id >= 0 /\ cmd.found.status = kNone

\* C26: when a non-dry-run analyze finds an entry that is not Analyzed, with
\* or without --force, the row of the entry and every scene row it owns are
\* gone when the new file row is about to be registered; and when the command
\* has returned 0 the file is Analyzed and its scene rows are exactly the
\* scenes that the new run has flushed, in order.
C26_StaleReplaced ==
    FoundStale =>
        /\ pc = "register" =>
              /\ cmd.found.id \notin FileIds(files)
              /\ getFileEntry(files, cmd.name).id < 0
              /\ RowsOf(scenes, cmd.found.id) = <<>>
        /\ (pc = "done" /\ exitCode = 0) =>
              /\ getFileEntry(files, cmd.name).id >= 0
              /\ getFileEntry(files, cmd.name).status = kAnalyzed
              /\ emitted = RefScenes(cmd.input, cmd.frameRate)
              /\ RowsOf(scenes, getFileEntry(files, cmd.name).id)
                    = RowsFor(emitted, getFileEntry(files, cmd.name).id)
              /\ getFileEntry(files, cmd.name).id # cmd.found.id
                    => RowsOf(scenes, cmd.found.id) = <<>>

\* without --force, the new row has taken the id of the unfinished entry, and
\* the file owns the two scenes of the new run
C26_Witness ==
    /\ FoundStale /\ ~cmd.forced
    /\ pc = "done" /\ exitCode = 0
    /\ getFileEntry(files, cmd.name).id = cmd.found.id
    /\ Len(emitted) = 2
    /\ Len(RowsOf(scenes, cmd.found.id)) = 2

----------------------------------------------------------------------------
(* Referential integrity of the index: claim C27 *)

\* C27: in every state that analyze, forced re-analyze and delete commands
\* can leave the index in, runs that fail or are killed included, every
\* scene row carries the id of a file row.
C27_NoOrphanScenes ==
    \A k \in DOMAIN scenes : scenes[k].file_id \in FileIds(files)

\* a re-analysis whose new row has taken the id of the deleted one has
\* registered a scene and then failed, next to another file with scenes
C27_Witness ==
    /\ pc = "done" /\ cmd.mode = "analyze" /\ exitCode = 1
    /\ cmd.found.id >= 0
    /\ getFileEntry(files, cmd.name).id = cmd.found.id
    /\ Len(RowsOf(scenes, cmd.found.id)) >= 1
    /\ Len(scenes) > Len(RowsOf(scenes, cmd.found.id))

----------------------------------------------------------------------------
(* Inputs without a complete frame: claim C28 *)

\* the files marked Analyzed by a run whose input held no complete frame
AnalyzedFromNothing == {id \in DOMAIN runOf : runOf[id].input.frames = <<>>}

\* the scene row of hash 0 and duration 0 of the file
ZeroRow(id) == [hash |-> 0, duration_ms |-> 0, file_id |-> id]

----------------------------------------------------------------------------
(* The divisor of the duration: claim C29 *)

\* analyzeScenes has computed a duration with a frameRate of 0: the division
\* has trapped, or a scene carries what it has left
DividedByZero ==
    /\ cmd.mode = "analyze"
    /\ cmd.frameRate = 0
    /\ pc = "trap" \/ emitted # <<>>

\* C29: whatever argument of --frame-rate option parsing accepts, no
\* duration is computed in analyzeScenes with a divisor of 0.
C29_DivisorNeverZero == ~DividedByZero

----------------------------------------------------------------------------
(* A SceneId repeated within one file: claim C30 *)

\* the files that own a scene row with the SceneId
OwnersOf(sceneId) ==
    {scenes[k].file_id : k \in {j \in DOMAIN scenes : SceneIdOf(scenes[j]) = sceneId}}

\* the SceneId is in two rows or more, all of one file
RepeatedInOneFile(sceneId) ==
    Occurrences(sceneId) > 1 /\ Cardinality(OwnersOf(sceneId)) = 1

\* C30: a SceneId with two or more rows that all belong to one file
\* qualifies for getTopHashes like any other, so it is returned whenever
\* limit does not cut it off, and it counts among the at most limit
\* candidates; every line of top is due to a candidate that two files own,
\* so when every candidate is repeated in one file only, top prints no line.
C30_RepeatedSceneTakesSlot ==
    TopDone =>
        /\ (cmd.limit < 0 \/ Cardinality(Qualifying) <= cmd.limit)
              => \A j \in DOMAIN scenes :
                    RepeatedInOneFile(SceneIdOf(scenes[j]))
                        => SceneIdOf(scenes[j]) \in Returned
        /\ \A k \in DOMAIN emitted :
              \E c \in Returned :
                  /\ ~RepeatedInOneFile(c)
                  /\ OccursIn(c, emitted[k].first) /\ OccursIn(c, emitted[k].second)
        /\ (\A c \in Returned : RepeatedInOneFile(c)) => emitted = <<>>

\* top(1) prints no line: its one candidate is repeated in one file, and a
\* SceneId that two files share is below the cut-off
C30_Witness ==
    /\ TopDone /\ cmd.limit = 1
    /\ Len(loc.hashCounts) = 1
    /\ RepeatedInOneFile(loc.hashCounts[1].sceneId)
    /\ emitted = <<>>
    /\ \E q \in Qualifying \ Returned :
          /\ Cardinality(OwnersOf(q)) > 1
          /\ LessU32(q.durationMs, loc.hashCounts[1].sceneId.durationMs)
====
